---- MODULE Spec2Model ----
(***************************************************************************)
(* Model of the enrollment microservice's fault-tolerance core:            *)
(*   - the saga coordinators   (app/core/saga_pattern.py, app/saga_pattern.py)          *)
(*   - the circuit breakers    (app/core/circuit_breaker.py, app/circuit_breaker.py)    *)
(*   - the worker enrollment transactions (app/tasks.py)                   *)
(* Each subsystem has its own specification (SpecSaga, SpecCB, SpecDB);    *)
(* the variables of the other subsystems are parked meanwhile.             *)
(***************************************************************************)
EXTENDS Integers, Sequences, FiniteSets, TLC

VARIABLES
    \* ---- saga coordinator
    sagaImpl,         \* "core" (app/core/saga_pattern.py) or "simple" (app/saga_pattern.py)
    steps,            \* SagaTransaction.steps: sequence of SagaStep records
    sagaStatus,       \* SagaTransaction.status
    spc,              \* position of the coroutine running execute()
    cur,              \* index of the step the for loop of execute() is at
    attempt,          \* loop variable of _execute_step's retry loop
    walk,             \* position of the reverse walk of the compensation loop
    completed_steps,  \* SagaTransaction.completed_steps (simple implementation)
    actionLog,        \* history: step index of every action invocation, in order
    lastErr,          \* the exception the previous attempt of the current step raised
    permRetried,      \* history: steps whose action was invoked again after a permanent error
    compLog,          \* history: step index of every compensation invocation, in order
    reached,          \* history: steps whose action returned successfully
    \* ---- circuit breaker
    cbImpl,                 \* "core" (app/core/circuit_breaker.py) or "simple" (app/circuit_breaker.py)
    cbState,                \* CircuitBreaker.state / _state
    failure_count,          \* simple: _failure_count
    success_count,          \* simple: _success_count
    consecutive_failures,   \* core: stats.consecutive_failures
    consecutive_successes,  \* core: stats.consecutive_successes
    last_failure_time,      \* stats.last_failure_time / _last_failure_time (0 is None)
    now,                    \* time.time()
    calls,                  \* per caller: where its coroutine is in call()
    ncalls,                 \* number of calls made so far
    failRun,                \* history: failures recorded since the last recorded success or reset
    hoSucc,                 \* history: successes recorded since the breaker last entered half-open
    resetVia,               \* history: how the breaker was last reset since the last call
    \* ---- worker enrollment transactions
    catalogo,       \* which catalogue of groups (materia, horario) the database holds
    cupo,           \* Grupo.cupo, per group
    inscritos,      \* Grupo.inscritos_actuales, per group (committed)
    inscripcion,    \* committed rows of table inscripcion
    detalle,        \* committed rows of table detalle_inscripcion
    rowlock,        \* per group: the task whose transaction holds the row lock (FOR UPDATE)
    task,           \* per task: its message, and the position and locals of its execution
    redeliveries,   \* number of re-deliveries of unacknowledged messages so far
    \* ---- idempotency keys
    keyImpl,        \* "core" (app/core/idempotency.py) or "simple" (app/idempotency.py)
    reqs,           \* two enrollment requests: student, period, list of groups
    fkeys,          \* per request: the fingerprint generated for it, if any
    dispatched,     \* per request: what its by-groups dispatch enqueued, if anything
    \* ---- idempotency store
    idemCache,      \* Redis: per idempotency key, the stored entry and its expiry time
    idemNow,        \* the clock of the store
    lastCall,       \* what the last get_or_execute saw and did
    idemCalls,      \* number of get_or_execute calls so far
    \* ---- group reservation
    grupo_lock,     \* Redis: per group code, the key grupo_lock:<code> and its expiry
    resNow,         \* the clock of Redis
    rsaga,          \* per enrollment saga: its position, its groups, what it reserved
    \* ---- schedule overlap test
    horarios,       \* the two horarios under test: hora_inicio and hora_fin of each
    solapan,         \* what _horarios_se_solapan answered for the pair, in each order
    \* ---- service operations
    svc,             \* per HTTP request handler: the service operation in progress and what its session read
    \* ---- Celery tasks
    cel,   \* per Celery task: its function, progress, stored state and result
    dlq,   \* the messages on the inscripciones_dlq queue
    respuesta,   \* the last response of the status endpoint
    \* ---- dispatch by groups
    broker,   \* the task messages published, in order
    dispatch,   \* the last by-groups request and its response
    \* ---- status of several tasks
    backend,   \* the state the result backend holds per task id
    multi,   \* the last status request over several ids and its response
    \* ---- one saga step
    stp   \* one saga step: configuration, attempts, sleeps, stored result, compensation call

sagavars == <<sagaImpl, steps, sagaStatus, spc, cur, attempt, walk,
              completed_steps, actionLog, lastErr, permRetried, compLog, reached>>

cbvars == <<cbImpl, cbState, failure_count, success_count, consecutive_failures,
            consecutive_successes, last_failure_time, now, calls, ncalls, failRun, hoSucc,
            resetVia>>

dbvars == <<catalogo, cupo, inscritos, inscripcion, detalle, rowlock, task, redeliveries>>

keyvars == <<keyImpl, reqs, fkeys, dispatched>>

idemvars == <<idemCache, idemNow, lastCall, idemCalls>>

resvars == <<grupo_lock, resNow, rsaga>>

horvars == <<horarios, solapan>>

svcvars == <<svc>>

celvars == <<cel, dlq, respuesta>>

dispvars == <<broker, dispatch>>

multivars == <<backend, multi>>

stepvars == <<stp>>

vars == <<sagavars, cbvars, dbvars, keyvars, idemvars, resvars, horvars, svcvars, celvars, dispvars, multivars, stepvars>>

notSaga == <<cbvars, dbvars, keyvars, idemvars, resvars, horvars, svcvars, celvars, dispvars, multivars, stepvars>>
notCB == <<sagavars, dbvars, keyvars, idemvars, resvars, horvars, svcvars, celvars, dispvars, multivars, stepvars>>
notDB == <<sagavars, cbvars, keyvars, idemvars, resvars, horvars, svcvars, celvars, dispvars, multivars, stepvars>>
notKey == <<sagavars, cbvars, dbvars, idemvars, resvars, horvars, svcvars, celvars, dispvars, multivars, stepvars>>
notIdem == <<sagavars, cbvars, dbvars, keyvars, resvars, horvars, svcvars, celvars, dispvars, multivars, stepvars>>
notRes == <<sagavars, cbvars, dbvars, keyvars, idemvars, horvars, svcvars, celvars, dispvars, multivars, stepvars>>
notHor == <<sagavars, cbvars, dbvars, keyvars, idemvars, resvars, svcvars, celvars, dispvars, multivars, stepvars>>
\* the service operations act on the tables of the database, so these stay out
notSvc == <<sagavars, cbvars, keyvars, idemvars, resvars, horvars, celvars, dispvars, multivars, stepvars>>
notCel == <<sagavars, cbvars, dbvars, keyvars, idemvars, resvars, horvars, svcvars, dispvars, multivars, stepvars>>
notDisp == <<sagavars, cbvars, dbvars, keyvars, idemvars, resvars, horvars, svcvars, celvars, multivars, stepvars>>
notMulti == <<sagavars, cbvars, dbvars, keyvars, idemvars, resvars, horvars, svcvars, celvars, dispvars, stepvars>>
notStep == <<sagavars, cbvars, dbvars, keyvars, idemvars, resvars, horvars, svcvars, celvars, dispvars, multivars>>

(***************************************************************************)
(*                         SAGA COORDINATOR                                *)
(***************************************************************************)

\* number of steps of the modelled saga, and the largest max_retries of a step
NumSteps == 3
MaxRetries == 1

StepIdx == 1..NumSteps

\* SagaStep as constructed by add_step: status PENDING, retry_count 0.
\* The simple implementation has a mandatory compensation and no retry.
SagaStep(comp, maxr) ==
    [compensation |-> comp, max_retries |-> maxr, status |-> "pending", retry_count |-> 0]

SagaStepConfigs(impl) ==
    IF impl = "core"
    THEN {SagaStep(c, m) : c \in BOOLEAN, m \in 0..MaxRetries}
    ELSE {SagaStep(TRUE, 0)}

SagaInit ==
    /\ sagaImpl \in {"core", "simple"}
    /\ steps \in [StepIdx -> SagaStepConfigs(sagaImpl)]
    /\ sagaStatus = IF sagaImpl = "core" THEN "started" ELSE "pending"
    /\ spc = "created"
    /\ cur = 0
    /\ attempt = 0
    /\ walk = 0
    /\ completed_steps = <<>>
    /\ actionLog = <<>>
    /\ lastErr = "none"
    /\ permRetried = {}
    /\ compLog = <<>>
    /\ reached = {}

SetStep(i, st, rc) == [steps EXCEPT ![i].status = st, ![i].retry_count = rc]

\* execute(): entry. core sets status EXECUTING; _execute_step marks the step EXECUTING.
Saga_execute ==
    /\ spc = "created"
    /\ spc' = "step"
    /\ cur' = 1
    /\ attempt' = 0
    /\ sagaStatus' = IF sagaImpl = "core" THEN "executing" ELSE sagaStatus
    /\ steps' = IF sagaImpl = "core" THEN SetStep(1, "executing", 0) ELSE steps
    /\ UNCHANGED <<sagaImpl, walk, completed_steps, actionLog, lastErr, permRetried, compLog, reached>>
    /\ UNCHANGED notSaga

\* the list the compensation loop walks in reverse:
\* core: reversed(self.steps); simple: reversed(self.completed_steps)
WalkList == IF sagaImpl = "core" THEN [i \in StepIdx |-> i] ELSE completed_steps

\* the filter of the compensation loop, on the step index i
Eligible_anyStatus(i) == steps[i].compensation
Eligible(i) ==
    IF sagaImpl = "core"
    THEN steps[i].status = "completed" /\ steps[i].compensation
    ELSE steps[i].status = "completed"

\* the next position of WalkList, at or below p, whose step is compensated; 0 if none
NextEligible(p) ==
    LET ok == {q \in 1..p : Eligible(WalkList[q])}
    IN  IF ok = {} THEN 0 ELSE CHOOSE q \in ok : \A r \in ok : r <= q

\* the step the loop of execute() takes after step i: "for step in self.steps"
NextStep_skip(i) == IF i + 2 <= NumSteps THEN i + 2 ELSE i + 1
NextStep(i) == i + 1

\* the action of step cur returns: the step is COMPLETED; the loop goes on or the saga completes
Saga_action_returns ==
    /\ spc = "step"
    /\ actionLog' = Append(actionLog, cur)
    /\ lastErr' = "none"
    /\ permRetried' = IF lastErr = "permanent" THEN permRetried \cup {cur} ELSE permRetried
    /\ reached' = reached \cup {cur}
    /\ completed_steps' = IF sagaImpl = "simple" THEN Append(completed_steps, cur) ELSE completed_steps
    /\ IF cur = Len(steps)
       THEN /\ steps' = SetStep(cur, "completed", attempt)
            /\ sagaStatus' = "completed"
            /\ spc' = "returned"
            /\ UNCHANGED cur
       ELSE /\ steps' = IF sagaImpl = "core"
                        THEN [SetStep(cur, "completed", attempt) EXCEPT ![NextStep(cur)].status = "executing"]
                        ELSE SetStep(cur, "completed", attempt)
            /\ cur' = NextStep(cur)
            /\ UNCHANGED <<sagaStatus, spc>>
    /\ attempt' = 0
    /\ UNCHANGED <<sagaImpl, walk, compLog>>
    /\ UNCHANGED notSaga

\* whether the failed attempt is the step's last one (core: attempt == step.max_retries;
\* simple: there is no retry)
FinalAttempt_offByOne(i, a) == a + 1 >= steps[i].max_retries
FinalAttempt(i, a) == a = steps[i].max_retries

\* the exceptions an action can raise: transient (network, timeout, deadlock) or
\* permanent (not found, duplicate, schedule conflict, no capacity)
ErrorKinds == {"transient", "permanent"}

\* whether _execute_step goes on to another attempt after an exception of kind e at
\* attempt a of step i: "except Exception" does not look at the exception
Retries_onlyTransient(i, a, e) == e = "transient" /\ a < steps[i].max_retries
Retries(i, a, e) == ~FinalAttempt(i, a)

\* the action of step cur raises: retry (core), or the step is FAILED and compensation begins
Saga_action_raises(e) ==
    /\ spc = "step"
    /\ actionLog' = Append(actionLog, cur)
    /\ permRetried' = IF lastErr = "permanent" THEN permRetried \cup {cur} ELSE permRetried
    /\ lastErr' = IF Retries(cur, attempt, e) THEN e ELSE "none"
    /\ IF ~Retries(cur, attempt, e)
       THEN /\ steps' = SetStep(cur, "failed", attempt)
            /\ sagaStatus' = IF sagaImpl = "core" THEN "compensating" ELSE sagaStatus
            /\ spc' = "compensate"
            /\ walk' = Len(WalkList)
            /\ UNCHANGED attempt
       ELSE /\ steps' = SetStep(cur, steps[cur].status, attempt)
            /\ attempt' = attempt + 1
            /\ UNCHANGED <<sagaStatus, spc, walk>>
    /\ UNCHANGED <<sagaImpl, cur, completed_steps, compLog, reached>>
    /\ UNCHANGED notSaga

\* where the reverse walk goes on after the compensation at position p raised
WalkAfterRaise_abort(p) == 0
WalkAfterRaise(p) == p - 1

\* the status a step is left in when its compensation raised:
\* core set COMPENSATING before the call; simple leaves COMPLETED
StatusAfterRaise == IF sagaImpl = "core" THEN "compensating" ELSE "completed"

\* one iteration of the compensation loop that invokes a compensation
Saga_compensate_step(ok) ==
    /\ spc = "compensate"
    /\ NextEligible(walk) # 0
    /\ LET p == NextEligible(walk)
           i == WalkList[p]
       IN  /\ compLog' = Append(compLog, i)
           /\ steps' = SetStep(i, IF ok THEN "compensated" ELSE StatusAfterRaise, steps[i].retry_count)
           /\ walk' = IF ok THEN p - 1 ELSE WalkAfterRaise(p)
    /\ UNCHANGED <<sagaImpl, sagaStatus, spc, cur, attempt, completed_steps, actionLog, lastErr, permRetried, reached>>
    /\ UNCHANGED notSaga

\* the status execute() leaves after the compensation loop:
\* core: self.status = COMPENSATED; return False
\* simple: compensate() sets "compensated", then execute() raises SagaExecutionException
\*         and its outer handler sets "failed"
StatusAfterCompensation == IF sagaImpl = "core" THEN "compensated" ELSE "failed"

\* the compensation loop is exhausted
Saga_compensate_end ==
    /\ spc = "compensate"
    /\ NextEligible(walk) = 0
    /\ walk' = 0
    /\ sagaStatus' = "compensated"
    /\ spc' = IF sagaImpl = "core" THEN "returned" ELSE "raising"
    /\ UNCHANGED <<sagaImpl, steps, cur, attempt, completed_steps, actionLog, lastErr, permRetried, compLog, reached>>
    /\ UNCHANGED notSaga

\* simple: raise SagaExecutionException reaches the outer handler of execute()
Saga_execute_raises ==
    /\ spc = "raising"
    /\ sagaStatus' = StatusAfterCompensation
    /\ spc' = "returned"
    /\ UNCHANGED <<sagaImpl, steps, cur, attempt, walk, completed_steps, actionLog, lastErr, permRetried, compLog, reached>>
    /\ UNCHANGED notSaga

SagaNext ==
    \/ Saga_execute
    \/ Saga_action_returns
    \/ \E e \in ErrorKinds : Saga_action_raises(e)
    \/ \E ok \in BOOLEAN : Saga_compensate_step(ok)
    \/ Saga_compensate_end
    \/ Saga_execute_raises


(***************************************************************************)
(*                          CIRCUIT BREAKER                                *)
(***************************************************************************)

\* the "database" breaker's configuration
FailureThreshold == 3
CoreSuccessThreshold == 2
SimpleSuccessThreshold == 3
\* recovery_timeout in clock ticks, the last clock value, and the number of calls made
RecoveryTimeout == 2
MaxTime == 5
MaxCalls == 6

Callers == {"c1", "c2"}

\* core: the "database" breaker is configured with success_threshold=2; simple: its
\* "database" breaker leaves success_threshold at the dataclass default
SuccessThreshold == IF cbImpl = "core" THEN CoreSuccessThreshold ELSE SimpleSuccessThreshold

\* CircuitBreaker.__init__: CLOSED, zeroed statistics. time.time() is never 0.
CBInitOf(impl) ==
    /\ cbImpl = impl
    /\ cbState = "closed"
    /\ failure_count = 0
    /\ success_count = 0
    /\ consecutive_failures = 0
    /\ consecutive_successes = 0
    /\ last_failure_time = 0
    /\ now = 1
    /\ calls = [c \in Callers |-> "idle"]
    /\ ncalls = 0
    /\ failRun = 0
    /\ hoSucc = 0
    /\ resetVia = "none"

CBInit == \E impl \in {"core", "simple"} : CBInitOf(impl)

\* time passes
CB_tick ==
    /\ now < MaxTime
    /\ now' = now + 1
    /\ UNCHANGED <<cbImpl, cbState, failure_count, success_count, consecutive_failures,
                   consecutive_successes, last_failure_time, calls, ncalls, failRun, hoSucc, resetVia>>
    /\ UNCHANGED notCB

\* core _check_state: current_time - last_failure_time >= recovery_timeout (and a
\* last_failure_time that is set); simple _should_reject: the same comparison
RecoveryElapsed_early == last_failure_time # 0 /\ now - last_failure_time >= RecoveryTimeout - 1
RecoveryElapsed == last_failure_time # 0 /\ now - last_failure_time >= RecoveryTimeout

\* core _check_state raises CircuitBreakerException / simple _should_reject returns True
Rejects_halfOpenAtOnce == cbState = "open" /\ last_failure_time = 0
Rejects == cbState = "open" /\ ~RecoveryElapsed

\* call(): the check before the guarded operation. An OPEN breaker whose recovery
\* timeout has elapsed turns HALF_OPEN and the call goes on; any other state admits.
CB_call(c) ==
    /\ calls[c] \in {"idle", "rejected"}
    /\ ncalls < MaxCalls
    /\ ncalls' = ncalls + 1
    /\ IF Rejects
       THEN /\ calls' = [calls EXCEPT ![c] = "rejected"]
            /\ UNCHANGED <<cbState, success_count, consecutive_successes, hoSucc>>
       ELSE /\ calls' = [calls EXCEPT ![c] = IF cbState = "closed" THEN "inflight" ELSE "probe"]
            /\ IF cbState = "open"
               THEN /\ cbState' = "half_open"
                    /\ consecutive_successes' = IF cbImpl = "core" THEN 0 ELSE consecutive_successes
                    /\ success_count' = IF cbImpl = "simple" THEN 0 ELSE success_count
                    /\ hoSucc' = 0
               ELSE UNCHANGED <<cbState, success_count, consecutive_successes, hoSucc>>
    /\ resetVia' = "none"
    /\ UNCHANGED <<cbImpl, failure_count, consecutive_failures, last_failure_time, now, failRun>>
    /\ UNCHANGED notCB

\* the count _on_success compares with success_threshold, after its increment
ClosesOnSuccess_gt(n) == n > SuccessThreshold
ClosesOnSuccess(n) == n >= SuccessThreshold

\* the guarded operation returned: _on_success
CB_on_success(c) ==
    /\ calls[c] \in {"inflight", "probe"}
    /\ calls' = [calls EXCEPT ![c] = "idle"]
    /\ failRun' = 0
    /\ hoSucc' = IF cbState = "half_open" THEN hoSucc + 1 ELSE hoSucc
    /\ IF cbImpl = "core"
       THEN /\ consecutive_successes' = consecutive_successes + 1
            /\ consecutive_failures' = 0
            /\ cbState' = IF cbState = "half_open" /\ ClosesOnSuccess(consecutive_successes + 1)
                          THEN "closed" ELSE cbState
            /\ UNCHANGED <<failure_count, success_count, last_failure_time>>
       ELSE /\ IF cbState = "half_open"
               THEN IF ClosesOnSuccess(success_count + 1)
                    THEN \* _transition_to_closed
                         /\ cbState' = "closed"
                         /\ failure_count' = 0
                         /\ success_count' = 0
                         /\ last_failure_time' = 0
                    ELSE /\ success_count' = success_count + 1
                         /\ UNCHANGED <<cbState, failure_count, last_failure_time>>
               ELSE UNCHANGED <<cbState, failure_count, success_count, last_failure_time>>
            /\ UNCHANGED <<consecutive_failures, consecutive_successes>>
    /\ UNCHANGED <<cbImpl, now, ncalls, resetVia>>
    /\ UNCHANGED notCB

\* the count _on_failure compares with failure_threshold, after its increment
OpensOnFailure_gt(n) == n > FailureThreshold
OpensOnFailure(n) == n >= FailureThreshold

\* the guarded operation raised (or timed out): _on_failure
CB_on_failure(c) ==
    /\ calls[c] \in {"inflight", "probe"}
    /\ calls' = [calls EXCEPT ![c] = "idle"]
    /\ failRun' = failRun + 1
    /\ last_failure_time' = now
    /\ IF cbImpl = "core"
       THEN /\ consecutive_failures' = consecutive_failures + 1
            /\ consecutive_successes' = 0
            /\ cbState' = IF cbState = "closed" /\ OpensOnFailure(consecutive_failures + 1)
                          THEN "open"
                          ELSE IF cbState = "half_open" THEN "open" ELSE cbState
            /\ UNCHANGED <<failure_count, success_count>>
       ELSE /\ failure_count' = failure_count + 1
            /\ cbState' = IF cbState = "half_open" THEN "open"
                          ELSE IF OpensOnFailure(failure_count + 1) THEN "open" ELSE cbState
            /\ UNCHANGED <<success_count, consecutive_failures, consecutive_successes>>
    /\ UNCHANGED <<cbImpl, now, ncalls, hoSucc, resetVia>>
    /\ UNCHANGED notCB

\* reset(): CLOSED with fresh statistics (core) / _transition_to_closed (simple)
CB_reset ==
    /\ cbState' = "closed"
    /\ failure_count' = 0
    /\ success_count' = 0
    /\ consecutive_failures' = 0
    /\ consecutive_successes' = 0
    /\ last_failure_time' = 0
    /\ failRun' = 0
    /\ resetVia' = "reset"
    /\ UNCHANGED <<cbImpl, now, calls, ncalls, hoSucc>>
    /\ UNCHANGED notCB

\* POST /circuit-breakers/{service_name}/reset (routers/queue.py): the handler calls
\* the coroutine function circuit_breaker_registry.reset_circuit_breaker(name) of
\* app/circuit_breaker.py without awaiting it, so its body does not run, and answers
\* that the breaker was reset
CB_reset_endpoint ==
    /\ cbImpl = "simple"
    /\ resetVia' = "endpoint"
    /\ UNCHANGED <<cbImpl, cbState, failure_count, success_count, consecutive_failures,
                   consecutive_successes, last_failure_time, now, calls, ncalls, failRun, hoSucc>>
    /\ UNCHANGED notCB

CBNext ==
    \/ CB_tick
    \/ \E c \in Callers : CB_call(c)
    \/ \E c \in Callers : CB_on_success(c)
    \/ \E c \in Callers : CB_on_failure(c)
    \/ CB_reset
    \/ CB_reset_endpoint

(***************************************************************************)
(*                  WORKER ENROLLMENT TRANSACTIONS                         *)
(***************************************************************************)

\* largest capacity of a group, and number of re-deliveries
MaxCupo == 2
MaxRedeliver == 1

\* the task messages, in the order they are sent
Tasks == {1, 2}
NoTask == 0
NoCode == 0
Groups == {"G1", "G2"}
Students == {"RA1", "RA2", "RA3"}

\* Estudiante.estado_academico
estado_academico == [e \in Students |-> IF e = "RA3" THEN "BLOQUEADO" ELSE "REGULAR"]

\* the catalogues: per group its materia and its horario (days, start and end hour)
Catalogos == {"libre", "choque", "contiguo", "misma_materia"}

sigla_materia(g) ==
    IF catalogo = "misma_materia" THEN "MAT101"
    ELSE IF g = "G1" THEN "MAT101" ELSE "FIS100"

dias_semana(g) ==
    IF catalogo = "libre" THEN (IF g = "G1" THEN {"LU"} ELSE {"MA"})
    ELSE IF catalogo = "choque" THEN (IF g = "G1" THEN {"LU", "MI"} ELSE {"MI"})
    ELSE IF catalogo = "contiguo" THEN {"LU"}
    ELSE (IF g = "G1" THEN {"LU"} ELSE {"MA"})

hora_inicio(g) ==
    IF catalogo = "choque" THEN (IF g = "G1" THEN 8 ELSE 9)
    ELSE IF catalogo = "contiguo" THEN (IF g = "G1" THEN 8 ELSE 10)
    ELSE 8

hora_fin(g) == hora_inicio(g) + 2

\* _horarios_se_solapan
_horarios_se_solapan_closed(inicio1, fin1, inicio2, fin2) == ~(fin1 < inicio2 \/ fin2 < inicio1)
_horarios_se_solapan(inicio1, fin1, inicio2, fin2) == ~(fin1 <= inicio2 \/ fin2 <= inicio1)

\* the test the three horario validations apply to a pair of (group, horario) rows:
\* days in common and overlapping hours
Choque(g1, g2) ==
    /\ dias_semana(g1) \cap dias_semana(g2) # {}
    /\ _horarios_se_solapan(hora_inicio(g1), hora_fin(g1), hora_inicio(g2), hora_fin(g2))

\* the elements of a list
Range(s) == {s[i] : i \in 1..Len(s)}

\* the lists of groups a request can carry (InscripcionCreate.grupos is a plain List[str])
GroupLists == {<<g>> : g \in Groups} \cup {<<g, h>> : g, h \in Groups}

\* a task whose message has not been sent yet
TaskNew ==
    [pc |-> "new", kind |-> "none", est |-> "none", grupos |-> <<>>,
     insc |-> NoCode, nueva |-> FALSE, nuevos |-> <<>>, k |-> 0, err |-> "none"]

\* the state of a task whose message waits in the broker / whose execution starts over
Queued(r) == [r EXCEPT !.pc = "queued", !.insc = NoCode, !.nueva = FALSE,
                       !.nuevos = <<>>, !.k = 0, !.err = "none"]

\* the state of a task whose execution ended: locals are gone
Ended(r, pc, err) == [r EXCEPT !.pc = pc, !.insc = NoCode, !.nueva = FALSE,
                               !.nuevos = <<>>, !.k = 0, !.err = err]

\* an empty database of enrollments over one of the catalogues; every group has
\* capacity and nobody enrolled
DBInit ==
    /\ catalogo \in Catalogos
    /\ cupo \in {[g \in Groups |-> k] : k \in 1..MaxCupo}
    /\ inscritos = [g \in Groups |-> 0]
    /\ inscripcion = {}
    /\ detalle = {}
    /\ rowlock = [g \in Groups |-> NoTask]
    /\ task = [t \in Tasks |-> TaskNew]
    /\ redeliveries = 0

\* db.rollback() / the end of the transaction: the row locks of task t are released
Released(t) == [g \in Groups |-> IF rowlock[g] = t THEN NoTask ELSE rowlock[g]]

\* the except branch of both coroutines: rollback, and the exception leaves the task
Raise(t, err) ==
    /\ task' = [task EXCEPT ![t] = Ended(task[t], "failed", err)]
    /\ rowlock' = Released(t)
    /\ UNCHANGED <<catalogo, cupo, inscritos, inscripcion, detalle, redeliveries>>

\* the committed headers of a student (one period)
HeadersOf(e) == {h \in inscripcion : h.est = e}

\* the committed details under a header code
DetallesDe(c) == {d \in detalle : d.insc = c}

\* the groups of the committed details of a student: the join detalle - inscripcion
GruposInscritos(e) == {d.grupo : d \in {x \in detalle : \E h \in HeadersOf(e) : h.cod = x.insc}}

\* the routers' .delay(...): a message for the multi-group task (any list of groups)
\* or for the single-group task
Dispatch(t) ==
    /\ task[t].pc = "new"
    /\ \A u \in Tasks : u < t => task[u].pc # "new"
    /\ \E kind \in {"multi", "single"}, e \in Students, gs \in GroupLists :
         /\ kind = "single" => Len(gs) = 1
         /\ task' = [task EXCEPT ![t] = [TaskNew EXCEPT !.pc = "queued", !.kind = kind,
                                                        !.est = e, !.grupos = gs]]
    /\ UNCHANGED <<catalogo, cupo, inscritos, inscripcion, detalle, rowlock, redeliveries>>
    /\ UNCHANGED notDB

\* the start of both coroutines: the student and period checks; the multi-group
\* coroutine then looks up the header of (student, period) with scalar_one_or_none
Begin(t) ==
    /\ task[t].pc = "queued"
    /\ IF estado_academico[task[t].est] = "BLOQUEADO"
       THEN Raise(t, "bloqueado")
       ELSE IF task[t].kind = "single"
       THEN /\ task' = [task EXCEPT ![t].pc = "locking", ![t].nuevos = task[t].grupos, ![t].k = 1]
            /\ UNCHANGED <<catalogo, cupo, inscritos, inscripcion, detalle, rowlock, redeliveries>>
       ELSE IF Cardinality(HeadersOf(task[t].est)) > 1
       THEN Raise(t, "multiples")
       ELSE IF HeadersOf(task[t].est) = {}
       THEN /\ task' = [task EXCEPT ![t].pc = "locking", ![t].nuevos = task[t].grupos, ![t].k = 1]
            /\ UNCHANGED <<catalogo, cupo, inscritos, inscripcion, detalle, rowlock, redeliveries>>
       ELSE /\ task' = [task EXCEPT ![t].pc = "detalles",
                                    ![t].insc = (CHOOSE h \in HeadersOf(task[t].est) : TRUE).cod]
            /\ UNCHANGED <<catalogo, cupo, inscritos, inscripcion, detalle, rowlock, redeliveries>>
    /\ UNCHANGED notDB

\* grupos_nuevos = [g for g in grupos if g not in grupos_ya_inscritos]
Filter(gs, ya) == SelectSeq(gs, LAMBDA g : g \notin ya)

\* the header exists: read its details and keep the groups that are new; with none
\* new the coroutine returns "Todos los grupos ya estaban inscritos"
ReadDetalles(t) ==
    /\ task[t].pc = "detalles"
    /\ LET ya == {d.grupo : d \in DetallesDe(task[t].insc)}
           nuevos == Filter(task[t].grupos, ya)
       IN  IF nuevos = <<>>
           THEN task' = [task EXCEPT ![t] = Ended(task[t], "done", "none")]
           ELSE task' = [task EXCEPT ![t].pc = "locking", ![t].nuevos = nuevos, ![t].k = 1]
    /\ UNCHANGED <<catalogo, cupo, inscritos, inscripcion, detalle, rowlock, redeliveries>>
    /\ UNCHANGED notDB

\* the capacity test of _validate_grupos_disponibilidad on the locked row
SinCupo_gt(g) == inscritos[g] > cupo[g]
SinCupo(g) == inscritos[g] >= cupo[g]

\* _validate_grupos_disponibilidad, one group of the list: SELECT ... FOR UPDATE waits
\* for the row lock, then the capacity test
LockGrupo(t) ==
    /\ task[t].pc = "locking"
    /\ LET g == task[t].nuevos[task[t].k]
       IN  /\ rowlock[g] \in {NoTask, t}
           /\ IF SinCupo(g)
              THEN Raise(t, "sin_cupo")
              ELSE /\ rowlock' = [rowlock EXCEPT ![g] = t]
                   /\ task' = IF task[t].k < Len(task[t].nuevos)
                              THEN [task EXCEPT ![t].k = task[t].k + 1]
                              ELSE [task EXCEPT ![t].pc = "validating", ![t].k = 0]
                   /\ UNCHANGED <<catalogo, cupo, inscritos, inscripcion, detalle, redeliveries>>
    /\ UNCHANGED notDB

\* _validate_horarios_conflicto: a pair of distinct rows of the listed groups clashes
ConflictoEntre(gs) == \E g1, g2 \in Range(gs) : g1 # g2 /\ Choque(g1, g2)

\* _validate_horarios_conflicto_with_existing: a listed group clashes with a group
\* the student is already enrolled in
ConflictoConExistentes(e, gs) == \E n \in Range(gs), x \in GruposInscritos(e) : Choque(n, x)

\* _validate_no_duplicate_materias: two of the listed groups belong to one materia
MateriasDuplicadas(gs) ==
    \E g1, g2 \in Range(gs) : g1 # g2 /\ sigla_materia(g1) = sigla_materia(g2)

\* the existing-header branch: a new group's materia is among those of the header's details
MateriaYaInscrita(c, gs) ==
    \E n \in Range(gs), d \in DetallesDe(c) : sigla_materia(n) = sigla_materia(d.grupo)

\* the error the validations after the capacity test end with, "none" if they pass;
\* multi-group coroutine
ValidaMulti(r) ==
    IF ConflictoEntre(r.nuevos) THEN "horario"
    ELSE IF ConflictoConExistentes(r.est, r.nuevos) THEN "horario"
    ELSE IF r.insc = NoCode
    THEN (IF MateriasDuplicadas(r.nuevos) THEN "materia" ELSE "none")
    ELSE (IF MateriaYaInscrita(r.insc, r.nuevos) THEN "materia" ELSE "none")

\* single-group coroutine: materia already enrolled, _validate_horario_conflicto_individual,
\* group already enrolled
ValidaSingle(r) ==
    LET g == r.nuevos[1]
        ya == GruposInscritos(r.est)
    IN  IF \E x \in ya : sigla_materia(x) = sigla_materia(g) THEN "materia"
        ELSE IF \E x \in ya \ {g} : Choque(g, x) THEN "horario"
        ELSE IF g \in ya THEN "duplicado"
        ELSE "none"

\* the validations that follow the capacity test, under the row locks taken so far
Validate(t) ==
    /\ task[t].pc = "validating"
    /\ LET err == IF task[t].kind = "multi" THEN ValidaMulti(task[t]) ELSE ValidaSingle(task[t])
       IN  IF err # "none"
           THEN Raise(t, err)
           ELSE /\ task' = [task EXCEPT ![t].pc =
                               IF task[t].kind = "multi" /\ task[t].insc # NoCode
                               THEN "writing" ELSE "header"]
                /\ UNCHANGED <<catalogo, cupo, inscritos, inscripcion, detalle, rowlock, redeliveries>>
    /\ UNCHANGED notDB

\* the header codes in use: committed, or flushed by a transaction in progress
UsedCodes == ({h.cod : h \in inscripcion} \cup {task[u].insc : u \in Tasks}) \ {NoCode}

\* codigo_inscripcion = "I" + yymmdd + 3 hex characters of a uuid4: either a code no
\* row has (the smallest stands for them all) or the code of a committed row
FreshCode == CHOOSE c \in 1..(Cardinality(UsedCodes) + 1) :
                 c \notin UsedCodes /\ \A b \in 1..(c - 1) : b \in UsedCodes

\* table inscripcion as other transactions see it after db.flush() of a new header:
\* READ COMMITTED, the row stays invisible until the commit
HeadersAfterFlush_autocommit(t, c) == inscripcion \cup {[cod |-> c, est |-> task[t].est]}
HeadersAfterFlush(t, c) == inscripcion

\* db.add(Inscripcion(...)); db.flush()
FlushHeader(t) ==
    \E collide \in BOOLEAN :
        /\ collide => inscripcion # {}
        /\ IF collide
           THEN Raise(t, "integridad_header")
           ELSE /\ task' = [task EXCEPT ![t].pc = "writing", ![t].insc = FreshCode, ![t].nueva = TRUE]
                /\ inscripcion' = HeadersAfterFlush(t, FreshCode)
                /\ UNCHANGED <<catalogo, cupo, inscritos, detalle, rowlock, redeliveries>>

\* the header of the enrollment: the single-group coroutine looks it up now and
\* creates it when there is none; the multi-group coroutine, having found none at
\* its start, creates it
InsertHeader(t) ==
    /\ task[t].pc = "header"
    /\ IF task[t].kind = "multi" \/ HeadersOf(task[t].est) = {}
       THEN FlushHeader(t)
       ELSE IF Cardinality(HeadersOf(task[t].est)) > 1
       THEN Raise(t, "multiples")
       ELSE /\ task' = [task EXCEPT ![t].pc = "writing",
                                    ![t].insc = (CHOOSE h \in HeadersOf(task[t].est) : TRUE).cod]
            /\ UNCHANGED <<catalogo, cupo, inscritos, inscripcion, detalle, rowlock, redeliveries>>
    /\ UNCHANGED notDB

\* number of times group g occurs in a list
Veces(gs, g) == Cardinality({i \in 1..Len(gs) : gs[i] = g})

\* one DetalleInscripcion per listed group, _increment_grupo_inscritos for each, and
\* db.commit(); codigo_detalle is drawn like codigo_inscripcion, and a code that
\* repeats one of the table or of the same transaction is an IntegrityError
Commit(t) ==
    /\ task[t].pc = "writing"
    /\ \E collide \in BOOLEAN :
        /\ collide => (detalle # {} \/ Len(task[t].nuevos) >= 2)
        /\ IF collide
           THEN Raise(t, "integridad_detalle")
           ELSE /\ detalle' = detalle \cup
                       {[cod |-> Cardinality(detalle) + i, insc |-> task[t].insc,
                         grupo |-> task[t].nuevos[i]] : i \in 1..Len(task[t].nuevos)}
                /\ inscritos' = [g \in Groups |-> inscritos[g] + Veces(task[t].nuevos, g)]
                /\ inscripcion' = IF task[t].nueva
                                  THEN inscripcion \cup {[cod |-> task[t].insc, est |-> task[t].est]}
                                  ELSE inscripcion
                /\ rowlock' = Released(t)
                /\ task' = [task EXCEPT ![t] = Ended(task[t], "done", "none")]
                /\ UNCHANGED <<catalogo, cupo, redeliveries>>
    /\ UNCHANGED notDB

\* task_acks_late: the worker is lost after the coroutine ended and before the message
\* is acknowledged, and the message is delivered again. (A worker lost in the middle
\* of the transaction rolls it back: the database is as if the task had not started.)
Redeliver(t) ==
    /\ task[t].pc \in {"done", "failed"}
    /\ redeliveries < MaxRedeliver
    /\ redeliveries' = redeliveries + 1
    /\ task' = [task EXCEPT ![t] = Queued(task[t])]
    /\ rowlock' = Released(t)
    /\ UNCHANGED <<catalogo, cupo, inscritos, inscripcion, detalle>>
    /\ UNCHANGED notDB

DBNext ==
    \/ \E t \in Tasks : Dispatch(t)
    \/ \E t \in Tasks : Begin(t)
    \/ \E t \in Tasks : ReadDetalles(t)
    \/ \E t \in Tasks : LockGrupo(t)
    \/ \E t \in Tasks : Validate(t)
    \/ \E t \in Tasks : InsertHeader(t)
    \/ \E t \in Tasks : Commit(t)
    \/ \E t \in Tasks : Redeliver(t)

(***************************************************************************)
(*                         IDEMPOTENCY KEYS                                *)
(***************************************************************************)

\* longest list of groups of a request
MaxGrupos == 2

\* values that uuid.uuid4().hex is drawn from
Uuids == {"u1", "u2"}

NoKey == <<>>
KeyStudents == {"RA1", "RA2"}
KeyPeriods == {"1-2025"}

\* the group codes, in the order Python compares the strings
GroupOrder == <<"G1", "G2", "G3">>
KeyGroups == Range(GroupOrder)
Rank(g) == CHOOSE i \in 1..Len(GroupOrder) : GroupOrder[i] = g

KeyGroupLists == UNION {[1..n -> KeyGroups] : n \in 1..MaxGrupos}

Requests == [est : KeyStudents, per : KeyPeriods, grupos : KeyGroupLists]

\* insertion of x into a sorted list, before the first greater element
RECURSIVE InsertSorted(_, _)
InsertSorted(x, s) ==
    IF s = <<>> THEN <<x>>
    ELSE IF Rank(x) < Rank(Head(s)) THEN <<x>> \o s
    ELSE <<Head(s)>> \o InsertSorted(x, Tail(s))

RECURSIVE SortedList(_)
SortedList(s) == IF s = <<>> THEN <<>> ELSE InsertSorted(Head(s), SortedList(Tail(s)))

\* sorted(grupos)
Sorted_asGiven(s) == s
Sorted(s) == SortedList(s)

\* IdempotencyKeyGenerator._normalize_data: the lists of the dict are sorted
NormalizeData(data) == [data EXCEPT !.grupos = Sorted(data.grupos)]

\* IdempotencyKeyGenerator.generate_key: operation:user_id:sha256(canonical json)[:16];
\* the digest stands as the canonical components it is computed from
GenerateKey(operation, user_id, data) ==
    <<operation, user_id,
      [operation |-> operation, user_id |-> user_id, data |-> NormalizeData(data)]>>

\* core InscriptionIdempotency.generate_inscription_key
GenerateInscriptionKey(r) ==
    GenerateKey("create_inscription", r.est,
                [codigo_periodo |-> r.per, grupos |-> Sorted(r.grupos)])

\* simple InscriptionIdempotency.generate_key: "inscription:" + sha256(canonical json)
SimpleGenerateKey(r) ==
    <<"inscription",
      [registro_academico |-> r.est, codigo_periodo |-> r.per, grupos |-> Sorted(r.grupos)]>>

Fingerprint(r) == IF keyImpl = "core" THEN GenerateInscriptionKey(r) ELSE SimpleGenerateKey(r)

KeyInit ==
    /\ keyImpl \in {"core", "simple"}
    /\ reqs \in [1..2 -> Requests]
    /\ fkeys = [i \in 1..2 |-> NoKey]
    /\ dispatched = [i \in 1..2 |-> <<>>]

\* the fingerprint of request i is generated
Key_generate(i) ==
    /\ fkeys[i] = NoKey
    /\ fkeys' = [fkeys EXCEPT ![i] = Fingerprint(reqs[i])]
    /\ UNCHANGED <<keyImpl, reqs, dispatched>>
    /\ UNCHANGED notKey

\* create_inscription_async_by_groups: base_data carries
\* "idempotency_key": "inscription:" + uuid.uuid4().hex, and one task per group of
\* the list is enqueued with base_data and that group alone
Key_dispatch_by_groups(i) ==
    /\ dispatched[i] = <<>>
    /\ \E u \in Uuids :
         dispatched' = [dispatched EXCEPT ![i] =
             [k \in 1..Len(reqs[i].grupos) |->
                 [registro_academico |-> reqs[i].est, codigo_periodo |-> reqs[i].per,
                  idempotency_key |-> <<"inscription", u>>,
                  grupos |-> <<reqs[i].grupos[k]>>]]]
    /\ UNCHANGED <<keyImpl, reqs, fkeys>>
    /\ UNCHANGED notKey

KeyNext ==
    \/ \E i \in 1..2 : Key_generate(i)
    \/ \E i \in 1..2 : Key_dispatch_by_groups(i)

(***************************************************************************)
(*                         IDEMPOTENCY STORE                               *)
(***************************************************************************)

\* time to live of a stored result, last instant of the clock, number of calls
IdemTtl == 2
MaxIdemTime == 3
MaxIdemCalls == 3

IdemKeys == {"k1", "k2"}
NoEntry == [val |-> "none", exp |-> 0]
NoCall == [key |-> "none"]

\* what the body of a producer returns: two json values and a datetime
Produced == {"a", "b", "fecha"}

\* what calling a coroutine function without awaiting it returns
Coroutine == "coroutine"

\* operation_func is a plain function or a coroutine function (async def)
ProducerKinds == {"sync", "async"}

\* json.dumps(cache_data, default=str) then json.loads: a json value comes back as
\* it was, any other object comes back as the string str() made of it
JsonRoundTrip(v) ==
    CASE v = "fecha" -> "str(fecha)"
      [] v = Coroutine -> "str(coroutine)"
      [] OTHER -> v

\* redis GET: an entry past its expiry is gone
Live(k) == idemCache[k] # NoEntry /\ idemCache[k].exp > idemNow

\* hasattr(operation_func, '__await__'): neither a function nor a coroutine
\* function has that attribute, only a coroutine object or a future has
HasAwait_coroutineFunction(kind) == kind = "async"
HasAwait(kind) == FALSE

\* the value of `result` after the call of operation_func whose body returns v
ResultOfCall(kind, v) ==
    IF HasAwait(kind) THEN v                \* await operation_func(...)
    ELSE IF kind = "sync" THEN v            \* operation_func(...)
    ELSE Coroutine                          \* operation_func(...) of an async def

\* number of times the body of operation_func has run when get_or_execute returns
BodyRuns(kind) == IF HasAwait(kind) \/ kind = "sync" THEN 1 ELSE 0

IdemInit ==
    /\ idemCache = [k \in IdemKeys |-> NoEntry]
    /\ idemNow = 0
    /\ lastCall = NoCall
    /\ idemCalls = 0

Idem_tick ==
    /\ idemNow < MaxIdemTime
    /\ idemNow' = idemNow + 1
    /\ UNCHANGED <<idemCache, lastCall, idemCalls>>
    /\ UNCHANGED notIdem

\* IdempotencyManager.get_or_execute(key, operation_func):
\*   getOk  - redis_client.get returns (otherwise it raises and is logged)
\*   setOk  - redis_client.setex returns (otherwise it raises and is logged)
\*   raises - the body of operation_func raises
Idem_get_or_execute(k, kind, v, getOk, setOk, raises) ==
    /\ idemCalls < MaxIdemCalls
    /\ idemCalls' = idemCalls + 1
    /\ LET stored == IF Live(k) THEN idemCache[k].val ELSE "none"
           hit == getOk /\ Live(k)
           ran == BodyRuns(kind)
           failed == ~hit /\ ran = 1 /\ raises
           result == ResultOfCall(kind, v)
       IN /\ lastCall' = [key |-> k, stored |-> stored, kind |-> kind, produced |-> v,
                          bodyRuns |-> IF hit THEN 0 ELSE ran,
                          raised |-> failed,
                          cached |-> hit,
                          result |-> IF hit THEN stored ELSE IF failed THEN "none" ELSE result]
          /\ idemCache' = IF hit \/ failed \/ ~setOk THEN idemCache
                          ELSE [idemCache EXCEPT ![k] =
                                   [val |-> JsonRoundTrip(result), exp |-> idemNow + IdemTtl]]
    /\ UNCHANGED idemNow
    /\ UNCHANGED notIdem

\* IdempotencyManager.invalidate(key)
Idem_invalidate(k) ==
    /\ idemCache[k] # NoEntry
    /\ idemCache' = [idemCache EXCEPT ![k] = NoEntry]
    /\ UNCHANGED <<idemNow, lastCall, idemCalls>>
    /\ UNCHANGED notIdem

IdemNext ==
    \/ Idem_tick
    \/ \E k \in IdemKeys, kind \in ProducerKinds, v \in Produced, getOk, setOk, raises \in BOOLEAN :
          Idem_get_or_execute(k, kind, v, getOk, setOk, raises)
    \/ \E k \in IdemKeys : Idem_invalidate(k)

(***************************************************************************)
(*                         GROUP RESERVATION                               *)
(***************************************************************************)

\* time to live of a lock key (ex=300), last instant of the clock, retries of the
\* reserve step (add_step's default max_retries)
LockTtl == 2
MaxResTime == 3
ReserveRetries == 1

ResSagas == {1, 2}
ResGroups == {"G1", "G2"}
NoHolder == 0
NoLock == [owner |-> NoHolder, exp |-> 0]

\* the grupos of a saga: a list for the multi-group saga, one group for the
\* single-group addition saga
ResGroupLists == UNION {[1..n -> ResGroups] : n \in 1..3}

\* the key exists in Redis: it was set and its expiry has not passed
LockLive(g) == grupo_lock[g] # NoLock /\ grupo_lock[g].exp > resNow

\* redis_client.set(lock_key, "locked", ex=300, nx=True) sets the key if it is absent
SetAcquires_noNX(g) == TRUE
SetAcquires(g) == ~LockLive(g)

\* _release_grupos: redis_client.delete(lock_key) of every group of the list,
\* whoever set the key
Deleted(locks, grupos) == [g \in ResGroups |-> IF g \in Range(grupos) THEN NoLock ELSE locks[g]]

\* the order in which _release_grupos(grupos) deletes the keys: "for grupo in grupos"
ReleaseOrder(grupos) == grupos

ResInit ==
    /\ grupo_lock = [g \in ResGroups |-> NoLock]
    /\ resNow = 0
    /\ rsaga \in [ResSagas -> {[pc |-> "validate", grupos |-> l, k |-> 1, reserved |-> <<>>,
                                attempt |-> 0, released |-> <<>>] : l \in ResGroupLists}]

Res_tick ==
    /\ resNow < MaxResTime
    /\ resNow' = resNow + 1
    /\ UNCHANGED <<grupo_lock, rsaga>>
    /\ UNCHANGED notRes

\* the step before the reservation (validate_student_and_period or
\* validate_group_availability) completes, or fails: nothing is compensated then
Res_validate(s, ok) ==
    /\ rsaga[s].pc = "validate"
    /\ rsaga' = [rsaga EXCEPT ![s].pc = IF ok THEN "reserve" ELSE "compensated"]
    /\ UNCHANGED <<grupo_lock, resNow>>
    /\ UNCHANGED notRes

\* _reserve_grupos, one group of the loop: the key is set or, if it exists, the
\* groups reserved so far are released and the step raises; _execute_step then
\* invokes the step again unless this was its last attempt
Res_reserve(s) ==
    /\ rsaga[s].pc = "reserve"
    /\ LET r == rsaga[s]
           g == r.grupos[r.k]
       IN IF SetAcquires(g)
          THEN /\ grupo_lock' = [grupo_lock EXCEPT ![g] = [owner |-> s, exp |-> resNow + LockTtl]]
               /\ rsaga' = [rsaga EXCEPT ![s] =
                      IF r.k = Len(r.grupos)
                      THEN [r EXCEPT !.pc = "steps", !.reserved = Append(r.reserved, g)]
                      ELSE [r EXCEPT !.k = r.k + 1, !.reserved = Append(r.reserved, g)]]
          ELSE /\ grupo_lock' = Deleted(grupo_lock, r.reserved)
               /\ rsaga' = [rsaga EXCEPT ![s] =
                      IF r.attempt < ReserveRetries
                      THEN [r EXCEPT !.k = 1, !.reserved = <<>>, !.attempt = r.attempt + 1,
                                     !.released = ReleaseOrder(r.reserved)]
                      ELSE [r EXCEPT !.pc = "compensated", !.reserved = <<>>,
                                     !.released = ReleaseOrder(r.reserved)]]
    /\ UNCHANGED resNow
    /\ UNCHANGED notRes

\* the steps after the reservation (create_inscription, create_detail_*,
\* commit_grupo_inscriptions, send_confirmation): all complete and the saga is
\* completed, or one fails and the completed steps are compensated, the
\* reservation by _release_grupos(grupos)
Res_steps(s, ok) ==
    /\ rsaga[s].pc = "steps"
    /\ IF ok
       THEN /\ rsaga' = [rsaga EXCEPT ![s].pc = "completed"]
            /\ UNCHANGED grupo_lock
       ELSE /\ rsaga' = [rsaga EXCEPT ![s].pc = "compensated", ![s].reserved = <<>>,
                                      ![s].released = ReleaseOrder(rsaga[s].grupos)]
            /\ grupo_lock' = Deleted(grupo_lock, rsaga[s].grupos)
    /\ UNCHANGED resNow
    /\ UNCHANGED notRes

ResNext ==
    \/ Res_tick
    \/ \E s \in ResSagas, ok \in BOOLEAN : Res_validate(s, ok)
    \/ \E s \in ResSagas : Res_reserve(s)
    \/ \E s \in ResSagas, ok \in BOOLEAN : Res_steps(s, ok)

(***************************************************************************)
(*                        SCHEDULE OVERLAP TEST                            *)
(***************************************************************************)

\* the hours of the day a horario can start or end at
MaxHora == 3

\* Horario.hora_inicio, Horario.hora_fin of a row: any two hours
Intervalos == [inicio : 0..MaxHora, fin : 0..MaxHora]

NoResult == "none"

\* the answer of the test as the validations use it
Answer(b) == IF b THEN "conflict" ELSE "free"

HorInit ==
    /\ horarios \in [1..2 -> Intervalos]
    /\ solapan = [ab |-> NoResult, ba |-> NoResult]

\* _horarios_se_solapan(horario1, horario2), as the loops of the validations call it
Hor_solapan_ab ==
    /\ solapan.ab = NoResult
    /\ solapan' = [solapan EXCEPT !.ab =
           Answer(_horarios_se_solapan(horarios[1].inicio, horarios[1].fin,
                                       horarios[2].inicio, horarios[2].fin))]
    /\ UNCHANGED horarios
    /\ UNCHANGED notHor

\* _horarios_se_solapan(horario2, horario1)
Hor_solapan_ba ==
    /\ solapan.ba = NoResult
    /\ solapan' = [solapan EXCEPT !.ba =
           Answer(_horarios_se_solapan(horarios[2].inicio, horarios[2].fin,
                                       horarios[1].inicio, horarios[1].fin))]
    /\ UNCHANGED horarios
    /\ UNCHANGED notHor

HorNext == Hor_solapan_ab \/ Hor_solapan_ba

(***************************************************************************)
(*            SERVICE OPERATIONS ON ENROLLMENTS (HTTP REQUESTS)            *)
(***************************************************************************)

\* number of service operations requested overall
MaxSvcOps == 3

\* the concurrent requests served by InscripcionService, each with its own session
Clients == {"h1", "h2"}
SvcStudents == {"RA1", "RA2"}

SvcIdle(n) ==
    [pc |-> "idle", est |-> "none", grupos |-> <<>>, insc |-> NoCode, dets |-> {},
     leido |-> [g \in Groups |-> 0], n |-> n]

SvcInit == svc = [c \in Clients |-> SvcIdle(0)]

\* a further request may arrive
SvcMayStart(c) ==
    /\ svc[c].pc = "idle"
    /\ svc["h1"].n + svc["h2"].n + Cardinality({b \in Clients : svc[b].pc # "idle"}) < MaxSvcOps

\* the inscritos_actuales of the Grupo rows the session loaded, the groups gs
Leido(gs) == [g \in Groups |-> IF g \in gs THEN inscritos[g] ELSE 0]

\* the operation of client c ends (returned or raised, rolled back): nothing written
SvcEnds(c) ==
    /\ svc' = [svc EXCEPT ![c] = SvcIdle(svc[c].n + 1)]
    /\ UNCHANGED dbvars

\* a pair of distinct groups of the set clashes (service _validate_horarios_conflicto)
SvcConflicto(gs) == \E g1, g2 \in gs : g1 # g2 /\ Choque(g1, g2)

\* a codigo_detalle no row of the table has
FreshDetalle(k) ==
    k + (IF detalle = {} THEN 0
         ELSE CHOOSE m \in {d.cod : d \in detalle} : \A d \in detalle : d.cod <= m)

\* grupo.inscritos_actuales += 1, once per entry of the list, on the Grupo object
\* the session loaded when it validated the group (no FOR UPDATE, no refresh)
Incremented(leido, gs) ==
    [g \in Groups |-> IF g \in Range(gs) THEN leido[g] + Veces(gs, g) ELSE inscritos[g]]

\* grupo.inscritos_actuales = max(0, grupo.inscritos_actuales - 1), once per detail
Decremented(leido, dets) ==
    [g \in Groups |->
        LET k == Cardinality({d \in dets : d.grupo = g})
        IN  IF k = 0 THEN inscritos[g]
            ELSE IF leido[g] - k < 0 THEN 0 ELSE leido[g] - k]

\* create_inscripcion, up to the validations: student, existing header, capacity
\* and schedule of the listed groups
Svc_create_begin(c, e, gs) ==
    /\ SvcMayStart(c)
    /\ IF \/ estado_academico[e] = "BLOQUEADO"
          \/ HeadersOf(e) # {}
          \/ \E g \in Range(gs) : SinCupo(g)
          \/ ConflictoEntre(gs)
       THEN SvcEnds(c)
       ELSE /\ svc' = [svc EXCEPT ![c] = [SvcIdle(svc[c].n) EXCEPT
                           !.pc = "create", !.est = e, !.grupos = gs, !.leido = Leido(Range(gs))]]
            /\ UNCHANGED dbvars
    /\ UNCHANGED notSvc

\* create_inscripcion, the writes and db.commit(): header, one detail per entry,
\* the counters
Svc_create_commit(c) ==
    /\ svc[c].pc = "create"
    /\ inscripcion' = inscripcion \cup {[cod |-> FreshCode, est |-> svc[c].est]}
    /\ detalle' = detalle \cup
           {[cod |-> FreshDetalle(i), insc |-> FreshCode, grupo |-> svc[c].grupos[i]] :
               i \in 1..Len(svc[c].grupos)}
    /\ inscritos' = Incremented(svc[c].leido, svc[c].grupos)
    /\ svc' = [svc EXCEPT ![c] = SvcIdle(svc[c].n + 1)]
    /\ UNCHANGED <<catalogo, cupo, rowlock, task, redeliveries>>
    /\ UNCHANGED notSvc

\* add_grupo_to_inscripcion, up to the validations: the header, the group not yet
\* in it, capacity, schedule of its groups with the new one
Svc_add_begin(c, h, g) ==
    /\ SvcMayStart(c)
    /\ h \in inscripcion
    /\ IF \/ \E d \in DetallesDe(h.cod) : d.grupo = g
          \/ SinCupo(g)
          \/ SvcConflicto({d.grupo : d \in DetallesDe(h.cod)} \cup {g})
       THEN SvcEnds(c)
       ELSE /\ svc' = [svc EXCEPT ![c] = [SvcIdle(svc[c].n) EXCEPT
                           !.pc = "add", !.grupos = <<g>>, !.insc = h.cod,
                           !.leido = Leido({g})]]
            /\ UNCHANGED dbvars
    /\ UNCHANGED notSvc

\* add_grupo_to_inscripcion, the writes and db.commit(); the insert fails on the
\* foreign key when the header has been deleted meanwhile
Svc_add_commit(c) ==
    /\ svc[c].pc = "add"
    /\ IF \A h \in inscripcion : h.cod # svc[c].insc
       THEN SvcEnds(c)
       ELSE /\ detalle' = detalle \cup
                   {[cod |-> FreshDetalle(1), insc |-> svc[c].insc, grupo |-> svc[c].grupos[1]]}
            /\ inscritos' = Incremented(svc[c].leido, svc[c].grupos)
            /\ svc' = [svc EXCEPT ![c] = SvcIdle(svc[c].n + 1)]
            /\ UNCHANGED <<catalogo, cupo, inscripcion, rowlock, task, redeliveries>>
    /\ UNCHANGED notSvc

\* remove_grupo_from_inscripcion, up to _decrement_grupo_inscritos: the detail of
\* (header, group) by scalar_one_or_none, then the Grupo row is read
Svc_remove_begin(c, h, g) ==
    /\ SvcMayStart(c)
    /\ h \in inscripcion
    /\ LET ds == {d \in DetallesDe(h.cod) : d.grupo = g}
       IN  IF Cardinality(ds) # 1
           THEN SvcEnds(c)
           ELSE /\ svc' = [svc EXCEPT ![c] = [SvcIdle(svc[c].n) EXCEPT
                               !.pc = "remove", !.insc = h.cod, !.dets = ds,
                               !.leido = Leido({g})]]
                /\ UNCHANGED dbvars
    /\ UNCHANGED notSvc

\* remove_grupo_from_inscripcion, db.commit(): the DELETE of a row that is gone
\* matches no row and the flush raises
Svc_remove_commit(c) ==
    /\ svc[c].pc = "remove"
    /\ IF ~(svc[c].dets \subseteq detalle)
       THEN SvcEnds(c)
       ELSE /\ detalle' = detalle \ svc[c].dets
            /\ inscritos' = Decremented(svc[c].leido, svc[c].dets)
            /\ svc' = [svc EXCEPT ![c] = SvcIdle(svc[c].n + 1)]
            /\ UNCHANGED <<catalogo, cupo, inscripcion, rowlock, task, redeliveries>>
    /\ UNCHANGED notSvc

\* delete_inscripcion, up to the decrements: the header with its details, then
\* the Grupo rows are read
Svc_delete_begin(c, h) ==
    /\ SvcMayStart(c)
    /\ h \in inscripcion
    /\ svc' = [svc EXCEPT ![c] = [SvcIdle(svc[c].n) EXCEPT
                   !.pc = "delete", !.insc = h.cod, !.dets = DetallesDe(h.cod),
                   !.leido = Leido({d.grupo : d \in DetallesDe(h.cod)})]]
    /\ UNCHANGED dbvars
    /\ UNCHANGED notSvc

\* delete_inscripcion, db.commit(): details and header deleted, counters written;
\* it fails when a row is gone or a detail was added to the header meanwhile
Svc_delete_commit(c) ==
    /\ svc[c].pc = "delete"
    /\ IF \/ \A h \in inscripcion : h.cod # svc[c].insc
          \/ DetallesDe(svc[c].insc) # svc[c].dets
       THEN SvcEnds(c)
       ELSE /\ detalle' = detalle \ svc[c].dets
            /\ inscripcion' = {h \in inscripcion : h.cod # svc[c].insc}
            /\ inscritos' = Decremented(svc[c].leido, svc[c].dets)
            /\ svc' = [svc EXCEPT ![c] = SvcIdle(svc[c].n + 1)]
            /\ UNCHANGED <<catalogo, cupo, rowlock, task, redeliveries>>
    /\ UNCHANGED notSvc

SvcNext ==
    \/ \E c \in Clients, e \in SvcStudents, gs \in GroupLists : Svc_create_begin(c, e, gs)
    \/ \E c \in Clients : Svc_create_commit(c)
    \/ \E c \in Clients, h \in inscripcion, g \in Groups : Svc_add_begin(c, h, g)
    \/ \E c \in Clients : Svc_add_commit(c)
    \/ \E c \in Clients, h \in inscripcion, g \in Groups : Svc_remove_begin(c, h, g)
    \/ \E c \in Clients : Svc_remove_commit(c)
    \/ \E c \in Clients, h \in inscripcion : Svc_delete_begin(c, h)
    \/ \E c \in Clients : Svc_delete_commit(c)

(***************************************************************************)
(*               CELERY TASKS: STATES, RETRIES, REVOCATION                 *)
(***************************************************************************)

\* celery_app.conf.task_max_retries
task_max_retries == 5

CelTasks == {"t1", "t2"}

\* the task functions: the two enrollment wrappers of app/tasks.py and the
\* retry wrapper of core/celery_app.py
CelKinds == {"single", "enhanced", "backoff"}

\* what one run of the enrollment does: it commits, or it raises a domain
\* error, an unexpected error, or a ConnectionError / TimeoutError / OSError
Outcomes == {"ok", "domain", "unexpected", "transient"}

NoOutcome == "none"
\* a result or a meta dictionary, as far as its status and error entries
NoDict == [status |-> "none", error |-> "none"]
InfoDict == [status |-> "info", error |-> "none"]
ExcDict(oc) == [status |-> "exception", error |-> oc]

NoResponse == [task_id |-> "none", status |-> "none", result |-> NoDict, meta |-> NoDict]

CelNew(k) ==
    [kind |-> k, phase |-> "queued", state |-> "PENDING", result |-> NoDict,
     outcome |-> NoOutcome, retries |-> 0, commit |-> FALSE, revokedAt |-> "no"]

CelInit ==
    /\ cel \in [CelTasks -> {CelNew(k) : k \in CelKinds}]
    /\ dlq = {}
    /\ respuesta = NoResponse

\* the state the task function reports when it starts
\* (task_track_started, then self.update_state)
StartedState(k) == IF k = "single" THEN "PROGRESS" ELSE "STARTED"

\* a worker receives the message: a task revoked meanwhile is discarded
Cel_receive(t) ==
    /\ cel[t].phase = "queued"
    /\ cel' = [cel EXCEPT ![t] =
                 IF cel[t].revokedAt # "no"
                 THEN [@ EXCEPT !.phase = "discarded", !.state = "REVOKED"]
                 ELSE [@ EXCEPT !.phase = "running", !.state = StartedState(cel[t].kind)]]
    /\ UNCHANGED <<dlq, respuesta>>
    /\ UNCHANGED notCel

\* the enrollment runs to its db.commit()
Cel_commit(t) ==
    /\ cel[t].phase = "running"
    /\ cel' = [cel EXCEPT ![t] = [@ EXCEPT !.phase = "committed", !.commit = TRUE,
                                            !.outcome = "ok"]]
    /\ UNCHANGED <<dlq, respuesta>>
    /\ UNCHANGED notCel

\* the dictionary an enrollment wrapper returns
WrapperResult(oc) ==
    IF oc = "ok" THEN [status |-> "SUCCESS", error |-> "none"]
                 ELSE [status |-> "ERROR", error |-> oc]

\* the state Celery stores for a task function that returned / that raised
Returned(oc) == "SUCCESS"
Raised == "FAILURE"

\* the enrollment has committed and the task function returns
Cel_return(t) ==
    /\ cel[t].phase = "committed"
    /\ cel' = [cel EXCEPT ![t] = [@ EXCEPT !.phase = "ended", !.state = Returned("ok"),
                                            !.result = WrapperResult("ok")]]
    /\ UNCHANGED <<dlq, respuesta>>
    /\ UNCHANGED notCel

\* the enrollment raises (its transaction rolls back) inside one of the two
\* enrollment wrappers: every except clause returns an ERROR dictionary
Cel_wrapper_error(t, oc) ==
    /\ cel[t].phase = "running" /\ cel[t].kind \in {"single", "enhanced"}
    /\ oc # "ok"
    /\ cel' = [cel EXCEPT ![t] = [@ EXCEPT !.phase = "ended", !.state = Returned(oc),
                                            !.outcome = oc, !.result = WrapperResult(oc)]]
    /\ UNCHANGED <<dlq, respuesta>>
    /\ UNCHANGED notCel

\* the function raises inside retry_task_with_backoff: self.retry for the three
\* retryable exception types while retries are left, the exception otherwise
Cel_backoff_error(t, oc) ==
    /\ cel[t].phase = "running" /\ cel[t].kind = "backoff"
    /\ oc # "ok"
    /\ cel' = [cel EXCEPT ![t] =
                 IF oc = "transient" /\ cel[t].retries < task_max_retries
                 THEN [@ EXCEPT !.phase = "queued", !.state = "RETRY", !.outcome = oc,
                                !.retries = @ + 1]
                 ELSE [@ EXCEPT !.phase = "ended", !.state = Raised, !.outcome = oc,
                                !.result = ExcDict(oc)]]
    /\ UNCHANGED <<dlq, respuesta>>
    /\ UNCHANGED notCel

\* cancel_task: celery_app.control.revoke(task_id, terminate=True).  A queued
\* task is remembered as revoked; a running one is signalled when the pool can
\* terminate a job (prefork) and left alone when it cannot (threads)
Cel_cancel_task(t, kills) ==
    /\ LET marked == [cel[t] EXCEPT !.revokedAt = IF @ = "no" THEN cel[t].phase ELSE @]
       IN  cel' = [cel EXCEPT ![t] =
                     IF kills /\ cel[t].phase \in {"running", "committed"}
                     THEN [marked EXCEPT !.phase = "killed", !.state = "REVOKED"]
                     ELSE marked]
    /\ UNCHANGED <<dlq, respuesta>>
    /\ UNCHANGED notCel

\* get_task_status: the response for AsyncResult(task_id)
StatusResponse(t) ==
    [task_id |-> t,
     status  |-> cel[t].state,
     result  |-> IF cel[t].state = "SUCCESS" THEN cel[t].result ELSE NoDict,
     meta    |-> IF cel[t].state = "SUCCESS" THEN NoDict
                 ELSE IF cel[t].state = "FAILURE" THEN cel[t].result
                 ELSE InfoDict]

Cel_get_task_status(t) ==
    /\ respuesta' = StatusResponse(t)
    /\ UNCHANGED <<cel, dlq>>
    /\ UNCHANGED notCel

CelNext ==
    \/ \E t \in CelTasks : Cel_receive(t)
    \/ \E t \in CelTasks : Cel_commit(t)
    \/ \E t \in CelTasks : Cel_return(t)
    \/ \E t \in CelTasks, oc \in Outcomes : Cel_wrapper_error(t, oc)
    \/ \E t \in CelTasks, oc \in Outcomes : Cel_backoff_error(t, oc)
    \/ \E t \in CelTasks, kills \in BOOLEAN : Cel_cancel_task(t, kills)
    \/ \E t \in CelTasks : Cel_get_task_status(t)

(***************************************************************************)
(*                       DISPATCH BY GROUPS                                *)
(***************************************************************************)

\* number of messages the broker holds at most
MaxEnqueued == 4

\* values of task.id and of a codigo_inscripcion
TaskId(k) == <<"task", k>>
CodigoInscripcion(k) == <<"inscripcion", k>>
NoId == <<"none", 0>>

\* the lists of groups of a request
DispGroupLists == {<<>>} \cup GroupLists

NoDispatch ==
    [router |-> "none", grupos |-> <<>>, base |-> 0, status |-> "none",
     main_task_id |-> NoId, group_tasks |-> <<>>]

DispInit ==
    /\ broker = <<>>
    /\ dispatch = NoDispatch

\* the messages task.delay() publishes for the first k groups of gs
Delayed(name, gs, k) ==
    [i \in 1..k |-> [id |-> TaskId(Len(broker) + i), name |-> name, grupo |-> gs[i]]]

\* the group_tasks list of the response
GroupTasks(gs) ==
    [i \in 1..Len(gs) |-> [grupo |-> gs[i], task_id |-> TaskId(Len(broker) + i)]]

\* main_task_id of routers/queue.py: the id of the task of the first group
MainTaskId(gs) == TaskId(Len(broker) + 1)

\* create_inscription_async_by_groups (routers/queue.py): the delay() of group
\* number falla raises (0: none does); an empty list leaves main_task_id None,
\* which the response model rejects.  Either way the handler answers 500 and
\* the messages already published stay.
Disp_by_groups(gs, falla) ==
    /\ Len(broker) + Len(gs) <= MaxEnqueued
    /\ falla \in 0..Len(gs)
    /\ IF falla # 0
       THEN /\ broker' = broker \o Delayed("create_enhanced_inscription_task", gs, falla - 1)
            /\ dispatch' = [NoDispatch EXCEPT !.router = "queue", !.grupos = gs,
                               !.base = Len(broker), !.status = "500"]
       ELSE IF gs = <<>>
       THEN /\ broker' = broker
            /\ dispatch' = [NoDispatch EXCEPT !.router = "queue", !.grupos = gs,
                               !.base = Len(broker), !.status = "500"]
       ELSE /\ broker' = broker \o Delayed("create_enhanced_inscription_task", gs, Len(gs))
            /\ dispatch' = [router |-> "queue", grupos |-> gs, base |-> Len(broker),
                            status |-> "QUEUED", main_task_id |-> MainTaskId(gs),
                            group_tasks |-> GroupTasks(gs)]
    /\ UNCHANGED notDisp

\* create_inscription_async_by_groups_enhanced (routers/queue_enhanced.py):
\* main_task_id is the codigo_inscripcion generated for the request
Disp_by_groups_enhanced(gs, falla) ==
    /\ Len(broker) + Len(gs) <= MaxEnqueued
    /\ falla \in 0..Len(gs)
    /\ IF falla # 0
       THEN /\ broker' = broker \o Delayed("create_single_group_inscription_task", gs, falla - 1)
            /\ dispatch' = [NoDispatch EXCEPT !.router = "queue_enhanced", !.grupos = gs,
                               !.base = Len(broker), !.status = "500"]
       ELSE /\ broker' = broker \o Delayed("create_single_group_inscription_task", gs, Len(gs))
            /\ dispatch' = [router |-> "queue_enhanced", grupos |-> gs, base |-> Len(broker),
                            status |-> "QUEUED",
                            main_task_id |-> CodigoInscripcion(Len(broker) + 1),
                            group_tasks |-> GroupTasks(gs)]
    /\ UNCHANGED notDisp

DispNext ==
    \/ \E gs \in DispGroupLists, falla \in 0..MaxGrupos : Disp_by_groups(gs, falla)
    \/ \E gs \in DispGroupLists, falla \in 0..MaxGrupos : Disp_by_groups_enhanced(gs, falla)

(***************************************************************************)
(*                    STATUS OF SEVERAL TASKS                              *)
(***************************************************************************)

\* length of the list of task ids of a request
MaxIds == 2

\* the task ids a client may ask about
MultiIds == {"a", "b"}

\* the states the result backend holds for a task; an unknown id is PENDING
BackendStates == {"PENDING", "STARTED", "SUCCESS", "FAILURE"}
READY_STATES == {"SUCCESS", "FAILURE"}

\* the backend accesses of one lookup: none raises (0), the read of
\* task_result.status (1), the reads of failed() and info (2), the final
\* read of successful() (3)
Accesses == 0..3

\* the lookup of position pos raises at access acc, the others do not
FallaEn(n, pos, acc) == [i \in 1..n |-> IF i = pos THEN acc ELSE 0]

IdLists == UNION {[1..n -> MultiIds] : n \in 1..MaxIds}

NoMulti == [router |-> "none", ids |-> <<>>, falla |-> <<>>, entries |-> <<>>]

MultiInit ==
    /\ backend = [t \in MultiIds |-> "PENDING"]
    /\ multi = NoMulti

\* a worker stores the next state of a task
Multi_store(t, s) ==
    /\ \/ backend[t] = "PENDING" /\ s \in {"STARTED", "FAILURE"}
       \/ backend[t] = "STARTED" /\ s \in {"SUCCESS", "FAILURE"}
    /\ backend' = [backend EXCEPT ![t] = s]
    /\ UNCHANGED multi
    /\ UNCHANGED notMulti

\* the access that raises, if any: a ready state is cached by the first read
\* and not read again
Raises(t, f) == IF f >= 2 /\ backend[t] \in READY_STATES THEN 0 ELSE f

\* response.meta of a lookup whose accesses all succeed
MetaOf(t) ==
    IF backend[t] = "FAILURE" THEN "exception"
    ELSE IF backend[t] = "PENDING" THEN "message"
    ELSE "info"

\* one pass of the loop of get_multiple_tasks_status
Entry(t, f) ==
    IF Raises(t, f) \in {1, 3}
    THEN [task_id |-> t, status |-> "ERROR", meta |-> "Error accessing task", result |-> FALSE]
    ELSE [task_id |-> t, status |-> backend[t],
          meta |-> IF Raises(t, f) = 2 THEN "TaskInfoError" ELSE MetaOf(t),
          result |-> backend[t] = "SUCCESS"]

\* one pass of the loop of get_multiple_tasks_status_enhanced: the metadata
\* and the status are read first (1), the rest inside the inner try (2)
EntryEnhanced(t, f) ==
    IF Raises(t, f) = 1
    THEN [task_id |-> t, status |-> "ERROR", meta |-> "Error accessing task", result |-> FALSE]
    ELSE [task_id |-> t, status |-> backend[t],
          meta |-> IF Raises(t, f) = 2 THEN "TaskInfoError"
                   ELSE IF backend[t] = "SUCCESS" THEN "none" ELSE MetaOf(t),
          result |-> backend[t] = "SUCCESS" /\ Raises(t, f) = 0]

\* results after the loop over task_ids
Results_stopAtRaise(ids, falla, enhanced) ==
    LET bad == {i \in 1..Len(ids) : Raises(ids[i], falla[i]) = 1}
        n   == IF bad = {} THEN Len(ids)
               ELSE (CHOOSE i \in bad : \A j \in bad : i <= j) - 1
    IN  [i \in 1..n |-> IF enhanced THEN EntryEnhanced(ids[i], falla[i])
                        ELSE Entry(ids[i], falla[i])]
Results(ids, falla, enhanced) ==
    [i \in 1..Len(ids) |-> IF enhanced THEN EntryEnhanced(ids[i], falla[i])
                           ELSE Entry(ids[i], falla[i])]

\* POST /tasks/status/multiple of routers/queue.py
Multi_get_multiple_tasks_status(ids, pos, acc) ==
    /\ pos <= Len(ids) /\ (pos = 0) = (acc = 0)
    /\ multi' = [router |-> "queue", ids |-> ids, falla |-> FallaEn(Len(ids), pos, acc),
                 entries |-> Results(ids, FallaEn(Len(ids), pos, acc), FALSE)]
    /\ UNCHANGED backend
    /\ UNCHANGED notMulti

\* POST /tasks/status/multiple of routers/queue_enhanced.py
Multi_get_multiple_tasks_status_enhanced(ids, pos, acc) ==
    /\ pos <= Len(ids) /\ (pos = 0) = (acc = 0) /\ acc # 3
    /\ multi' = [router |-> "queue_enhanced", ids |-> ids,
                 falla |-> FallaEn(Len(ids), pos, acc),
                 entries |-> Results(ids, FallaEn(Len(ids), pos, acc), TRUE)]
    /\ UNCHANGED backend
    /\ UNCHANGED notMulti

MultiNext ==
    \/ \E t \in MultiIds, s \in BackendStates : Multi_store(t, s)
    \/ \E ids \in IdLists, pos \in 0..MaxIds, acc \in Accesses :
           Multi_get_multiple_tasks_status(ids, pos, acc)
    \/ \E ids \in IdLists, pos \in 0..MaxIds, acc \in Accesses :
           Multi_get_multiple_tasks_status_enhanced(ids, pos, acc)

(***************************************************************************)
(*               ONE SAGA STEP: BACKOFF AND COMPENSATION DATA              *)
(***************************************************************************)

\* the largest max_retries of the step
MaxStepRetries == 10

\* the only delay ceiling of the repository (Celery's task_retry_backoff_max)
task_retry_backoff_max == 300

\* keyword names of the compensations, and the sentinel of a key a dict lacks
KwKeys == {"codigo_inscripcion", "codigo_grupo"}
Absent == "absent"

\* compensation_kwargs given to add_step, and the compensation_data an action produces
KwargsDicts == [KwKeys -> {Absent, "from_add_step"}]
DataDicts == [KwKeys -> {Absent, "from_action"}]
EmptyDict == [k \in KwKeys |-> Absent]

\* what the action returns: a dict with a "compensation_data" key (every action of
\* InscriptionSagaOrchestrator that has one), an object with a compensation_data
\* attribute, or a value without any
ResultShapes == {"dict_key", "attribute", "plain"}

\* the step's compensation was invoked (it returned, or raised)
CompensationInvoked == stp.status \in {"compensated", "compensating"}

RECURSIVE Pow2(_)
Pow2(n) == IF n = 0 THEN 1 ELSE 2 * Pow2(n - 1)

\* asyncio.sleep(2 ** attempt)
RetryDelay(a) == Pow2(a)

\* getattr(result, 'compensation_data', None) if hasattr(result, 'compensation_data') else None:
\* hasattr looks for an attribute, and the keys of a dict are not attributes
CompensationDataOf(shape, data) == IF shape = "attribute" THEN data ELSE EmptyDict

\* comp_kwargs = step.compensation_kwargs.copy(); comp_kwargs.update(compensation_data)
\* ("if step.result.compensation_data": an empty or missing dict updates nothing)
Updated(kwargs, data) == [k \in KwKeys |-> IF data[k] # Absent THEN data[k] ELSE kwargs[k]]

StepInit ==
    \E mr \in 0..MaxStepRetries, sh \in ResultShapes, dt \in DataDicts, kw \in KwargsDicts :
        stp = [max_retries |-> mr, shape |-> sh, data |-> dt, compensation_kwargs |-> kw,
               status |-> "pending", attempt |-> 0, delays |-> <<>>,
               compensation_data |-> EmptyDict, received |-> EmptyDict]

\* _execute_step: step.status = EXECUTING
Step_execute ==
    /\ stp.status = "pending"
    /\ stp' = [stp EXCEPT !.status = "executing"]
    /\ UNCHANGED notStep

\* the action returns at the current attempt: the result is stored, the step is COMPLETED
Step_action_returns ==
    /\ stp.status = "executing"
    /\ stp' = [stp EXCEPT !.status = "completed",
                          !.compensation_data = CompensationDataOf(stp.shape, stp.data)]
    /\ UNCHANGED notStep

\* the action raises at the current attempt: FAILED at the last attempt, else sleep and retry
Step_action_raises ==
    /\ stp.status = "executing"
    /\ stp' = IF stp.attempt = stp.max_retries
              THEN [stp EXCEPT !.status = "failed"]
              ELSE [stp EXCEPT !.delays = Append(@, RetryDelay(stp.attempt)),
                               !.attempt = @ + 1]
    /\ UNCHANGED notStep

\* _compensate_step of the completed step; the compensation returns (ok) or raises
Step_compensate(ok) ==
    /\ stp.status = "completed"
    /\ stp' = [stp EXCEPT !.received = Updated(stp.compensation_kwargs, stp.compensation_data),
                          !.status = IF ok THEN "compensated" ELSE "compensating"]
    /\ UNCHANGED notStep

StepNext ==
    \/ Step_execute
    \/ Step_action_returns
    \/ Step_action_raises
    \/ \E ok \in BOOLEAN : Step_compensate(ok)

(***************************************************************************)
(*                          SPECIFICATIONS                                 *)
(***************************************************************************)

SagaParked ==
    /\ sagaImpl = "core"
    /\ steps = <<>>
    /\ sagaStatus = "started"
    /\ spc = "parked"
    /\ cur = 0
    /\ attempt = 0
    /\ walk = 0
    /\ completed_steps = <<>>
    /\ actionLog = <<>>
    /\ lastErr = "none"
    /\ permRetried = {}
    /\ compLog = <<>>
    /\ reached = {}

CBParked == CBInitOf("core")

DBParked ==
    /\ catalogo = "libre"
    /\ cupo = [g \in Groups |-> 1]
    /\ inscritos = [g \in Groups |-> 0]
    /\ inscripcion = {}
    /\ detalle = {}
    /\ rowlock = [g \in Groups |-> NoTask]
    /\ task = [t \in Tasks |-> TaskNew]
    /\ redeliveries = 0

KeyParked ==
    /\ keyImpl = "core"
    /\ reqs = [i \in 1..2 |-> [est |-> "RA1", per |-> "1-2025", grupos |-> <<"G1">>]]
    /\ fkeys = [i \in 1..2 |-> NoKey]
    /\ dispatched = [i \in 1..2 |-> <<>>]

IdemParked == IdemInit

ResParked ==
    /\ grupo_lock = [g \in ResGroups |-> NoLock]
    /\ resNow = 0
    /\ rsaga = [s \in ResSagas |-> [pc |-> "parked", grupos |-> <<"G1">>, k |-> 1,
                                    reserved |-> <<>>, attempt |-> 0, released |-> <<>>]]

HorParked ==
    /\ horarios = [i \in 1..2 |-> [inicio |-> 0, fin |-> 0]]
    /\ solapan = [ab |-> NoResult, ba |-> NoResult]

SvcParked == SvcInit

CelParked ==
    /\ cel = [t \in CelTasks |-> CelNew("single")]
    /\ dlq = {}
    /\ respuesta = NoResponse

DispParked == DispInit

MultiParked == MultiInit

StepParked ==
    stp = [max_retries |-> 0, shape |-> "plain", data |-> EmptyDict, compensation_kwargs |-> EmptyDict,
           status |-> "pending", attempt |-> 0, delays |-> <<>>,
           compensation_data |-> EmptyDict, received |-> EmptyDict]

InitSaga == SagaInit /\ CBParked /\ DBParked /\ KeyParked /\ IdemParked /\ ResParked /\ HorParked /\ SvcParked /\ CelParked /\ DispParked /\ MultiParked /\ StepParked

SpecSaga == InitSaga /\ [][SagaNext]_vars

InitCB == CBInit /\ SagaParked /\ DBParked /\ KeyParked /\ IdemParked /\ ResParked /\ HorParked /\ SvcParked /\ CelParked /\ DispParked /\ MultiParked /\ StepParked

SpecCB == InitCB /\ [][CBNext]_vars

InitDB == DBInit /\ SagaParked /\ CBParked /\ KeyParked /\ IdemParked /\ ResParked /\ HorParked /\ SvcParked /\ CelParked /\ DispParked /\ MultiParked /\ StepParked

SpecDB == InitDB /\ [][DBNext]_vars

InitKey == KeyInit /\ SagaParked /\ CBParked /\ DBParked /\ IdemParked /\ ResParked /\ HorParked /\ SvcParked /\ CelParked /\ DispParked /\ MultiParked /\ StepParked

SpecKey == InitKey /\ [][KeyNext]_vars

InitIdem == IdemInit /\ SagaParked /\ CBParked /\ DBParked /\ KeyParked /\ ResParked /\ HorParked /\ SvcParked /\ CelParked /\ DispParked /\ MultiParked /\ StepParked

SpecIdem == InitIdem /\ [][IdemNext]_vars

InitRes == ResInit /\ SagaParked /\ CBParked /\ DBParked /\ KeyParked /\ IdemParked /\ HorParked /\ SvcParked /\ CelParked /\ DispParked /\ MultiParked /\ StepParked

SpecRes == InitRes /\ [][ResNext]_vars

InitHor == HorInit /\ SagaParked /\ CBParked /\ DBParked /\ KeyParked /\ IdemParked /\ ResParked /\ SvcParked /\ CelParked /\ DispParked /\ MultiParked /\ StepParked

SpecHor == InitHor /\ [][HorNext]_vars

InitSvc == SvcInit /\ DBInit /\ SagaParked /\ CBParked /\ KeyParked /\ IdemParked /\ ResParked /\ HorParked /\ CelParked /\ DispParked /\ MultiParked /\ StepParked

SpecSvc == InitSvc /\ [][SvcNext]_vars

InitCel == CelInit /\ SagaParked /\ CBParked /\ DBParked /\ KeyParked /\ IdemParked /\ ResParked /\ HorParked /\ SvcParked /\ DispParked /\ MultiParked /\ StepParked

SpecCel == InitCel /\ [][CelNext]_vars

InitDisp == DispInit /\ SagaParked /\ CBParked /\ DBParked /\ KeyParked /\ IdemParked /\ ResParked /\ HorParked /\ SvcParked /\ CelParked /\ MultiParked /\ StepParked

SpecDisp == InitDisp /\ [][DispNext]_vars

InitMulti == MultiInit /\ SagaParked /\ CBParked /\ DBParked /\ KeyParked /\ IdemParked /\ ResParked /\ HorParked /\ SvcParked /\ CelParked /\ DispParked /\ StepParked

SpecMulti == InitMulti /\ [][MultiNext]_vars

InitStep == StepInit /\ SagaParked /\ CBParked /\ DBParked /\ KeyParked /\ IdemParked /\ ResParked /\ HorParked /\ SvcParked /\ CelParked /\ DispParked /\ MultiParked

SpecStep == InitStep /\ [][StepNext]_vars

(***************************************************************************)
(*                CLAIMS: WORKER ENROLLMENT TRANSACTIONS                   *)
(***************************************************************************)

\* the committed tables the enrollment tasks write
Committed == <<inscripcion, detalle, inscritos>>

\* the committed details of student e for group g
DetallesDeEstudiante(e, g) ==
    {d \in detalle : d.grupo = g /\ \E h \in HeadersOf(e) : h.cod = d.insc}

\* C1: capacity safety: in every committed state, whatever the interleaving of
\* the enrollment tasks and whatever their group lists, no group has more
\* enrolled students than its capacity.
C1_CapacitySafety == \A g \in Groups : inscritos[g] <= cupo[g]

\* every task asked for group g alone, for a different regular student, and each
\* ran once and ended
SameGroupRace(g) ==
    /\ redeliveries = 0
    /\ \A t \in Tasks :
         /\ task[t].pc \in {"done", "failed"}
         /\ task[t].grupos = <<g>>
         /\ estado_academico[task[t].est] = "REGULAR"
    /\ \A t, u \in Tasks : t # u => task[t].est # task[u].est

Min(a, b) == IF a <= b THEN a ELSE b

\* C2: when n tasks of n distinct students ask for the same group with k free
\* seats, exactly min(n, k) of them commit a detail and every other one fails
\* with the no-capacity error, none for another reason.
C2_ExactlyMinCommit ==
    \A g \in Groups :
        SameGroupRace(g) =>
            /\ Cardinality({t \in Tasks : task[t].pc = "done"}) = Min(Cardinality(Tasks), cupo[g])
            /\ Cardinality({d \in detalle : d.grupo = g}) = Min(Cardinality(Tasks), cupo[g])
            /\ \A t \in Tasks : task[t].pc = "failed" => task[t].err = "sin_cupo"

\* C3: at most once: after any interleaving of enrollment tasks, a request
\* submitted twice and a re-delivered task included, there is at most one detail
\* per (student, period, group) and the group's counter went up at most once for it.
C3_AtMostOnce ==
    /\ \A e \in Students, g \in Groups : Cardinality(DetallesDeEstudiante(e, g)) <= 1
    /\ \A g \in Groups : inscritos[g] <= Cardinality({e \in Students : g \in GruposInscritos(e)})

\* C4: no partial enrollment: the step in which a task fails leaves headers,
\* details and counters as they were, and the committed tables change only in
\* the step that commits a task's whole transaction, so a task that fails, at
\* whatever step, leaves the committed state as it was before it started.
C4_NoPartialEnrollment ==
    /\ [][\A t \in Tasks : (task[t].pc # "failed" /\ task'[t].pc = "failed")
                              => Committed' = Committed]_vars
    /\ [][Committed' # Committed
            => \E t \in Tasks : task[t].pc = "writing" /\ task'[t].pc = "done"]_vars

\* C4 witness: a task that had flushed a new header failed on its details, and
\* its student has no committed header
C4_Witness ==
    \E t \in Tasks :
        /\ task[t].pc = "failed"
        /\ task[t].err = "integridad_detalle"
        /\ task[t].kind = "multi"
        /\ HeadersOf(task[t].est) = {}
        /\ detalle # {}

(***************************************************************************)
(*                      CLAIMS: SAGA COORDINATOR                           *)
(***************************************************************************)

SagaReturned == spc = "returned"

\* the compensation of step i was invoked and raised
CompRaised(i) ==
    /\ \E k \in 1..Len(compLog) : compLog[k] = i
    /\ steps[i].status \in {"compensating", "completed"}

TimesCompensated(i) == Cardinality({k \in 1..Len(compLog) : compLog[k] = i})

\* C8: a compensation is invoked only for a step whose action reached completed
\* (never for the failed step or a pending step), and the compensations are
\* invoked in strict reverse of the steps' insertion order.
C8_CompensationOnlyCompletedInReverse ==
    /\ \A k \in 1..Len(compLog) :
          /\ compLog[k] \in reached
          /\ steps[compLog[k]].status \notin {"pending", "executing", "failed"}
    /\ \A k, l \in 1..Len(compLog) : k < l => compLog[k] > compLog[l]

\* C8 witness: a saga whose last step failed has compensated two earlier steps
C8_Witness ==
    /\ SagaReturned
    /\ Len(compLog) >= 2
    /\ \E i \in StepIdx : steps[i].status = "failed" /\ i > compLog[1]

\* C9: when a saga ends non-completed, the compensation of every completed step
\* that has one has been attempted exactly once, also when the compensation of
\* a later step raised.
C9_AllCompensationsAttemptedOnce ==
    (SagaReturned /\ sagaStatus # "completed") =>
        \A i \in reached : steps[i].compensation => TimesCompensated(i) = 1

\* C9 witness: the compensation of a later step raised and an earlier step's
\* compensation was still attempted
C9_Witness ==
    /\ SagaReturned
    /\ \E i, j \in reached : i < j /\ CompRaised(j) /\ TimesCompensated(i) = 1

\* C10: when a step action fails terminally and every compensation that runs
\* succeeds, the saga's terminal status is compensated.
C10_CompensatedWhenCompensationsSucceed ==
    (/\ SagaReturned
     /\ \E i \in StepIdx : steps[i].status = "failed"
     /\ \A i \in StepIdx : ~CompRaised(i))
        => sagaStatus = "compensated"

\* C11: when a step action fails terminally and at least one compensation
\* raises, the saga's terminal status is failed, not compensated.
C11_FailedWhenCompensationRaises ==
    (/\ SagaReturned
     /\ \E i \in StepIdx : steps[i].status = "failed"
     /\ \E i \in StepIdx : CompRaised(i))
        => sagaStatus = "failed"

\* number of invocations of the action of step i
TimesInvoked(i) == Cardinality({k \in 1..Len(actionLog) : actionLog[k] = i})

\* every invocation of the action of step i raised
AlwaysRaised(i) == i \notin reached

\* C15: a step with max_retries = n whose action fails on every attempt has
\* its action invoked exactly n + 1 times, after which the step is failed and
\* the compensation begins; before that the step is not failed.
C15_RetriesExactlyMaxRetriesPlusOne ==
    \A i \in StepIdx :
        /\ steps[i].status = "failed" =>
              /\ TimesInvoked(i) = steps[i].max_retries + 1
              /\ spc \in {"compensate", "raising", "returned"}
        /\ (AlwaysRaised(i) /\ TimesInvoked(i) = steps[i].max_retries + 1)
              => steps[i].status = "failed"
        /\ TimesInvoked(i) <= steps[i].max_retries + 1

\* C15 witness: a step with max_retries = 1 failed twice, is failed, and the
\* saga went on to compensate
C15_Witness ==
    \E i \in StepIdx :
        /\ steps[i].max_retries >= 1
        /\ steps[i].status = "failed"
        /\ AlwaysRaised(i)
        /\ TimesInvoked(i) = steps[i].max_retries + 1
        /\ Len(compLog) >= 1

\* C16: a step whose action fails with a permanent (domain) error is not
\* retried: the action of no step is invoked again after an invocation of it
\* raised a permanent error.
C16_PermanentErrorNotRetried == permRetried = {}

(***************************************************************************)
(*                       CLAIMS: CIRCUIT BREAKER                           *)
(***************************************************************************)

WithinRecovery == now - last_failure_time < RecoveryTimeout

\* C5: after failure_threshold consecutive failures the breaker is open, and
\* every call attempted before recovery_timeout has elapsed since the last
\* failure is rejected without the guarded operation being invoked.
C5_OpenAfterThresholdRejectsWithinRecovery ==
    /\ [][(failRun' > failRun /\ failRun' >= FailureThreshold) => cbState' = "open"]_vars
    /\ [][(cbState = "open" /\ WithinRecovery) =>
             \A c \in Callers :
                 /\ calls'[c] \in {"inflight", "probe"} => calls'[c] = calls[c]
                 /\ CB_call(c) => calls'[c] = "rejected"]_vars

\* C5 witness: the threshold was reached, the breaker is open and a call made
\* within the recovery timeout was rejected
C5_Witness ==
    /\ cbState = "open"
    /\ failRun >= FailureThreshold
    /\ WithinRecovery
    /\ \E c \in Callers : calls[c] = "rejected"

\* C6: once recovery_timeout has elapsed on an open breaker exactly one probe
\* is admitted: while a probe is in flight no second call reaches the guarded
\* operation.
C6_SingleProbeInHalfOpen ==
    Cardinality({c \in Callers : calls[c] = "probe"}) <= 1

\* C7: a half-open breaker becomes closed exactly when the number of
\* consecutive successes recorded since it entered half-open reaches
\* success_threshold, and stays half-open for every smaller count
\* (an operator reset, which closes the breaker at once, aside).
C7_HalfOpenClosesAtSuccessThreshold ==
    /\ [](cbState = "half_open" => hoSucc < SuccessThreshold)
    /\ [][(cbState = "half_open" /\ cbState' = "closed" /\ ~CB_reset)
             => (hoSucc' = hoSucc + 1 /\ hoSucc' = SuccessThreshold)]_vars
    /\ [][(cbState = "half_open" /\ hoSucc' = hoSucc + 1 /\ hoSucc' < SuccessThreshold)
             => cbState' = "half_open"]_vars

\* C7 witness: the breaker was half-open and the success_threshold-th success closed it
C7_Witness ==
    /\ cbState = "closed"
    /\ hoSucc = SuccessThreshold
    /\ failRun = 0
    /\ last_failure_time = 0 \/ cbImpl = "core"

(***************************************************************************)
(*                    CLAIMS ABOUT IDEMPOTENCY KEYS                        *)
(***************************************************************************)

Count(s, g) == Cardinality({k \in 1..Len(s) : s[k] = g})

\* the two lists hold the same elements, each the same number of times
Permutation(s, t) == Len(s) = Len(t) /\ \A g \in KeyGroups : Count(s, g) = Count(t, g)

SameStudentAndPeriod == reqs[1].est = reqs[2].est /\ reqs[1].per = reqs[2].per

BothDispatched == \A i \in 1..2 : dispatched[i] # <<>>

\* C12: two by-groups dispatches with the same student, the same period and the
\* same set of groups, in any order, attach the same idempotency key to the tasks
\* they enqueue.
C12_SameKeyForSameDispatch ==
    (/\ BothDispatched
     /\ SameStudentAndPeriod
     /\ Range(reqs[1].grupos) = Range(reqs[2].grupos))
    => \A j \in 1..Len(dispatched[1]), k \in 1..Len(dispatched[2]) :
          dispatched[1][j].idempotency_key = dispatched[2][k].idempotency_key

\* C14: for a fixed operation, student and period, two lists of groups with the
\* same elements in any order produce the same fingerprint.
C14_FingerprintPermutationInvariant ==
    (/\ fkeys[1] # NoKey /\ fkeys[2] # NoKey
     /\ SameStudentAndPeriod
     /\ Permutation(reqs[1].grupos, reqs[2].grupos))
    => fkeys[1] = fkeys[2]

\* two different orders of the same groups were fingerprinted, with equal keys
C14_Witness ==
    /\ fkeys[1] # NoKey /\ fkeys[2] # NoKey
    /\ SameStudentAndPeriod
    /\ Permutation(reqs[1].grupos, reqs[2].grupos)
    /\ reqs[1].grupos # reqs[2].grupos
    /\ fkeys[1] = fkeys[2]

(***************************************************************************)
(*                   CLAIMS ABOUT THE IDEMPOTENCY STORE                    *)
(***************************************************************************)

\* C13: get_or_execute on a key whose result is stored and neither expired nor
\* invalidated returns the stored result with cached = true and does not invoke
\* the producer; on a miss it invokes the producer exactly once and, unless the
\* producer raised, returns the producer's result with cached = false.
C13_GetOrRun ==
    lastCall # NoCall =>
        IF lastCall.stored # "none"
        THEN lastCall.cached /\ lastCall.result = lastCall.stored /\ lastCall.bodyRuns = 0
        ELSE /\ lastCall.bodyRuns = 1
             /\ ~lastCall.cached
             /\ ~lastCall.raised => lastCall.result = lastCall.produced

(***************************************************************************)
(*                    CLAIMS ABOUT GROUP RESERVATION                       *)
(***************************************************************************)

\* saga s holds the reservation of g: its reserve step succeeded with g in its
\* list and it has neither released it nor finished
HoldsReservation(s, g) == rsaga[s].pc = "steps" /\ g \in Range(rsaga[s].grupos)

\* C17: at no time do two sagas both hold the reservation of the same group code,
\* also when a lock's time to live runs out while its saga is still running.
C17_ReservationMutualExclusion ==
    \A s1, s2 \in ResSagas, g \in ResGroups :
        (HoldsReservation(s1, g) /\ HoldsReservation(s2, g)) => s1 = s2

\* the key that saga s set for g is still in Redis
StillHeld(s, g) == LockLive(g) /\ grupo_lock[g].owner = s

\* C18: when an enrollment saga has finished, completed or compensated, none of
\* the reservation locks it acquired is still held.
C18_NoLockHeldAfterSagaEnds ==
    \A s \in ResSagas :
        rsaga[s].pc \in {"completed", "compensated"} => \A g \in ResGroups : ~StillHeld(s, g)

(***************************************************************************)
(*               CLAIMS ABOUT HEADERS AND MATERIAS                         *)
(***************************************************************************)

\* C19: after any interleaving of enrollment tasks, the per-group tasks of one
\* by-groups request included, there is at most one enrollment header per
\* student and period.
C19_OneHeaderPerStudentAndPeriod == \A e \in Students : Cardinality(HeadersOf(e)) <= 1

\* the committed details of student e
DetallesInscritos(e) == {d \in detalle : \E h \in HeadersOf(e) : h.cod = d.insc}

\* the list has two entries of one materia
ListaRepiteMateria(gs) ==
    \E i, j \in 1..Len(gs) : i # j /\ sigla_materia(gs[i]) = sigla_materia(gs[j])

\* C20: a student holds at most one group per materia within the period, and a
\* task whose list has two groups of one materia fails.
C20_MateriaUniqueness ==
    /\ \A e \in Students : \A d1, d2 \in DetallesInscritos(e) :
           sigla_materia(d1.grupo) = sigla_materia(d2.grupo) => d1 = d2
    /\ \A t \in Tasks :
           (task[t].pc \in {"done", "failed"} /\ ListaRepiteMateria(task[t].grupos))
           => task[t].pc = "failed"

(***************************************************************************)
(*               CLAIMS ABOUT THE ORDER AND END OF A SAGA                  *)
(***************************************************************************)

\* the position of the first invocation of step i's action, 0 if it was never invoked
FirstInvocation(i) ==
    LET ks == {k \in 1..Len(actionLog) : actionLog[k] = i}
    IN  IF ks = {} THEN 0 ELSE CHOOSE k \in ks : \A j \in ks : k <= j

\* C28: in the multi-group enrollment saga, whose last step is the notification
\* (no compensation, max_retries = 1), a failure of that step does not fail the
\* saga: it ends completed and no compensation of the earlier steps is run.
C28_NotificationFailureDoesNotFailSaga ==
    (/\ sagaImpl = "core"
     /\ SagaReturned
     /\ ~steps[NumSteps].compensation
     /\ steps[NumSteps].max_retries = 1
     /\ steps[NumSteps].status = "failed")
    => (sagaStatus = "completed" /\ compLog = <<>>)

\* C30: the actions are invoked in insertion order: the invocations never go
\* back to an earlier step, the first invocation of step k+1 comes after those of
\* step k and only when step k has completed, and after a step has failed
\* terminally no later step is invoked.
C30_StepsInInsertionOrder ==
    /\ \A p, q \in 1..Len(actionLog) : p < q => actionLog[p] <= actionLog[q]
    /\ \A k \in 1..(NumSteps - 1) :
           FirstInvocation(k + 1) # 0
           => (/\ FirstInvocation(k) # 0
               /\ FirstInvocation(k) < FirstInvocation(k + 1)
               /\ k \in reached)
    /\ Len(actionLog) >= 1 => actionLog[1] = 1
    /\ \A i \in StepIdx :
           steps[i].status = "failed" => \A k \in 1..Len(actionLog) : actionLog[k] <= i

\* every step was invoked, in order, and the saga completed
C30_Witness ==
    /\ SagaReturned
    /\ sagaStatus = "completed"
    /\ \A i \in StepIdx : FirstInvocation(i) # 0

(***************************************************************************)
(*                  CLAIMS ABOUT THE OPERATOR RESET                        *)
(***************************************************************************)

\* C29: after an operator reset of the breaker, through reset(name) or through
\* the reset endpoint, the breaker is closed with its failure and success
\* counters at zero, and the next call is admitted.
C29_ResetClosesBreaker ==
    [][(resetVia' # resetVia /\ resetVia' # "none")
       => (/\ cbState' = "closed"
           /\ failure_count' = 0
           /\ success_count' = 0
           /\ ~(cbState' = "open" /\ (last_failure_time' = 0 \/ now' - last_failure_time' < RecoveryTimeout)))]_vars

(***************************************************************************)
(*                 CLAIMS ABOUT THE SCHEDULE OVERLAP TEST                  *)
(***************************************************************************)

\* the half-open intervals [inicio, fin) of the two horarios share a time point
ShareTimePoint ==
    \E h \in 0..MaxHora : \A i \in 1..2 : horarios[i].inicio <= h /\ h < horarios[i].fin

ProperIntervals == \A i \in 1..2 : horarios[i].inicio < horarios[i].fin

\* C27: for intervals with start < end, the overlap test gives the same answer
\* in both orders and reports a conflict exactly when the half-open intervals
\* share a time point; intervals that only touch do not conflict.
C27_OverlapSymmetricHalfOpen ==
    ProperIntervals =>
        /\ solapan.ab # NoResult => (solapan.ab = "conflict" <=> ShareTimePoint)
        /\ solapan.ba # NoResult => (solapan.ba = "conflict" <=> ShareTimePoint)

\* two intervals that touch were tested in both orders and do not conflict
C27_Witness ==
    /\ ProperIntervals
    /\ horarios[1].fin = horarios[2].inicio
    /\ solapan.ab = "free"
    /\ solapan.ba = "free"

(***************************************************************************)
(*                  CLAIMS ABOUT THE COUNTERS OF GROUPS                    *)
(***************************************************************************)

\* the detail rows of group g
DetallesDeGrupo(g) == {d \in detalle : d.grupo = g}

\* C21: in every committed state, the number of detail rows of a group added
\* since the initial state (no details, counters at zero) equals the group's
\* inscritos_actuales minus its initial value.
C21_CounterEqualsDetails == \A g \in Groups : Cardinality(DetallesDeGrupo(g)) = inscritos[g]

(***************************************************************************)
(*                     CLAIMS ABOUT CELERY TASKS                           *)
(***************************************************************************)

\* the task ran one of the two enrollment wrappers and its enrollment failed
EnrollmentFailed(t) ==
    /\ cel[t].kind \in {"single", "enhanced"}
    /\ cel[t].phase = "ended"
    /\ cel[t].outcome \in {"domain", "unexpected"}

\* C22: a task whose enrollment fails, for a domain error or an unexpected
\* error, ends with recorded status failed, never succeeded, and a status
\* query answered with a terminal status reports the failure with its error.
C22_FailedEnrollmentRecordedFailed ==
    \A t \in CelTasks :
        EnrollmentFailed(t) =>
            /\ cel[t].state = "FAILURE"
            /\ (respuesta.task_id = t /\ respuesta.status \in {"SUCCESS", "FAILURE"})
                   => (respuesta.status = "FAILURE" /\ respuesta.meta.error = cel[t].outcome)

\* C23: a task that has ended after failing with a retryable error on every
\* attempt has been retried task_max_retries times and is on the dead-letter
\* queue with its task id and its terminal error.
C23_ExhaustedRetriesOnDlq ==
    \A t \in CelTasks :
        (cel[t].phase = "ended" /\ cel[t].outcome = "transient") =>
            /\ cel[t].retries = task_max_retries
            /\ [task_id |-> t, error |-> "transient"] \in dlq

\* C24: a task revoked after it started (while it runs, before or after its
\* commit) has no header, detail or counter change committed.
C24_RevokedTaskCommitsNothing ==
    \A t \in CelTasks :
        cel[t].revokedAt \in {"running", "committed"} => ~cel[t].commit

(***************************************************************************)
(*                    CLAIMS ABOUT THE DISPATCHER                          *)
(***************************************************************************)

\* the messages the last dispatch published, in the order of publication
Enqueued == SubSeq(broker, dispatch.base + 1, Len(broker))

\* C25: a by-groups dispatch of groups g1..gn that answers QUEUED has enqueued
\* exactly n tasks, one per group in input order, lists (gi, id of the i-th
\* enqueued task) in that order, and gives the id of the first enqueued task
\* (when there is one) as main_task_id.
C25_OneTaskPerGroupInOrder ==
    dispatch.status = "QUEUED" =>
        /\ Len(Enqueued) = Len(dispatch.grupos)
        /\ Len(dispatch.group_tasks) = Len(dispatch.grupos)
        /\ \A i \in 1..Len(dispatch.grupos) :
              /\ Enqueued[i].grupo = dispatch.grupos[i]
              /\ dispatch.group_tasks[i].grupo = dispatch.grupos[i]
              /\ dispatch.group_tasks[i].task_id = Enqueued[i].id
        /\ Len(dispatch.grupos) > 0 => dispatch.main_task_id = Enqueued[1].id

(***************************************************************************)
(*                  CLAIMS ABOUT THE STATUS OF SEVERAL TASKS               *)
(***************************************************************************)

\* the lookup of position i of the response raised out of its loop pass: the
\* status read, or (routers/queue.py, task not ready) the final successful()
LookupRaised(i) ==
    \/ multi.falla[i] = 1
    \/ multi.falla[i] = 3 /\ multi.router = "queue"
                          /\ backend[multi.ids[i]] \notin {"SUCCESS", "FAILURE"}

\* C26: the answer to a status request over a list of task ids has exactly one
\* entry per input id, in input order; an id whose lookup raises has an entry
\* with status ERROR and the error annotated, and every other id has the entry
\* with the status the backend holds for it.
C26_Holds ==
    /\ Len(multi.entries) = Len(multi.ids)
    /\ \A i \in 1..Len(multi.ids) :
          /\ i <= Len(multi.entries)
          /\ multi.entries[i].task_id = multi.ids[i]
          /\ LookupRaised(i) =>
                /\ multi.entries[i].status = "ERROR"
                /\ multi.entries[i].meta = "Error accessing task"
          /\ ~LookupRaised(i) =>
                /\ multi.entries[i].status = backend[multi.ids[i]]
                /\ multi.falla[i] = 0 =>
                       multi.entries[i].result = (backend[multi.ids[i]] = "SUCCESS")
C31_OpensOnlyOnConsecutiveFailures ==
    [][(cbState = "closed" /\ cbState' = "open") => failRun' >= FailureThreshold]_vars

\* a failure is recorded in this step
FailureRecorded == failRun' = failRun + 1

\* C32: a failure recorded while the breaker is half-open moves it back to
\* open with that moment as the time of the last failure; while the breaker
\* stays open that time never moves back, every call made before a full
\* recovery_timeout has elapsed since it is rejected, and the breaker leaves
\* the open state only after that (an operator reset aside).
C32_HalfOpenFailureReopens ==
    /\ [][(cbState = "half_open" /\ FailureRecorded)
             => (cbState' = "open" /\ last_failure_time' = now)]_vars
    /\ [][(cbState = "open" /\ cbState' = "open")
             => last_failure_time' >= last_failure_time]_vars
    /\ [][(cbState = "open" /\ now - last_failure_time < RecoveryTimeout)
             => /\ (cbState' = "open" \/ CB_reset)
                /\ \A c \in Callers : calls'[c] = "probe" => calls[c] = "probe"]_vars

\* C32 witness: the breaker was half-open, recorded one success and then a
\* failure, is open again within the recovery timeout, and a call was rejected
C32_Witness ==
    /\ cbState = "open"
    /\ hoSucc = 1
    /\ hoSucc < SuccessThreshold
    /\ now - last_failure_time < RecoveryTimeout
    /\ \E c \in Callers : calls[c] = "rejected"

(***************************************************************************)
(*                       CLAIMS: ONE SAGA STEP                             *)
(***************************************************************************)

\* the action's result carried compensation_data with at least one pair
CarriesData == stp.shape # "plain" /\ \E k \in KwKeys : stp.data[k] # Absent

\* C33: when a step's action returned a result carrying compensation_data and
\* the step's compensation is invoked, the compensation receives those
\* key-value pairs merged into its compensation keyword arguments.
C33_CompensationReceivesData ==
    (CarriesData /\ CompensationInvoked) =>
        \A k \in KwKeys : stp.data[k] # Absent => stp.received[k] = stp.data[k]

\* C33 restricted to results that expose compensation_data as an attribute
C33_AttributeResultsMerged ==
    (stp.shape = "attribute" /\ CompensationInvoked) =>
        \A k \in KwKeys : stp.received[k] = IF stp.data[k] # Absent THEN stp.data[k]
                                             ELSE stp.compensation_kwargs[k]

\* C35: the delays between the retry attempts of a step are 2^attempt seconds
\* up to a fixed maximum that no delay exceeds, whatever max_retries is, and
\* no delay follows the final attempt.
C35_DelaysCappedExponential ==
    /\ \A k \in 1..Len(stp.delays) :
          /\ stp.delays[k] <= task_retry_backoff_max
          /\ Pow2(k - 1) <= task_retry_backoff_max => stp.delays[k] = Pow2(k - 1)
    /\ Len(stp.delays) <= stp.max_retries
    /\ stp.status = "failed" => Len(stp.delays) = stp.max_retries

\* C35 without the ceiling: exactly max_retries delays, the k-th of 2^(k-1) seconds
C35_DelaysExponential ==
    /\ \A k \in 1..Len(stp.delays) : stp.delays[k] = Pow2(k - 1)
    /\ Len(stp.delays) <= stp.max_retries
    /\ stp.status = "failed" => Len(stp.delays) = stp.max_retries

(***************************************************************************)
(*               CLAIMS ABOUT RELEASING RESERVATIONS                       *)
(***************************************************************************)

RECURSIVE Reversed(_)
Reversed(l) == IF l = <<>> THEN <<>> ELSE Append(Reversed(Tail(l)), Head(l))

\* this step is a call of _reserve_grupos by saga s that raised
ReserveFailed(s) ==
    /\ rsaga[s].pc = "reserve"
    /\ rsaga'[s] # rsaga[s]
    /\ rsaga'[s].reserved = <<>>

\* a key that a holder other than s set and that has not expired
LockOfOther(s, g) == LockLive(g) /\ grupo_lock[g].owner # s

\* C34: reserving a list of groups is all-or-nothing: when the lock of a code
\* cannot be acquired the step fails, every lock acquired earlier in the call
\* has been released, in reverse order of acquisition, and the locks of other
\* holders are untouched.
C34_ReserveAllOrNothing ==
    [][\A s \in ResSagas : ReserveFailed(s) =>
          /\ \A g \in Range(rsaga[s].reserved) : grupo_lock'[g] = NoLock
          /\ rsaga'[s].released = Reversed(rsaga[s].reserved)
          /\ \A g \in ResGroups : LockOfOther(s, g) => grupo_lock'[g] = grupo_lock[g]]_vars

\* C34 without the order: the locks acquired earlier in the call are gone
C34_EarlierLocksReleased ==
    [][\A s \in ResSagas : ReserveFailed(s) =>
          /\ \A g \in Range(rsaga[s].reserved) : grupo_lock'[g] = NoLock
          /\ Range(rsaga'[s].released) = Range(rsaga[s].reserved)]_vars

\* C34 without the order, for the locks of other holders
C34_OthersUntouched ==
    [][\A s \in ResSagas : ReserveFailed(s) =>
          \A g \in ResGroups : LockOfOther(s, g) => grupo_lock'[g] = grupo_lock[g]]_vars

\* C34 order alone, when two distinct locks were acquired before the failure
C34_ReleasedInReverse ==
    [][\A s \in ResSagas : (ReserveFailed(s) /\ Len(rsaga[s].reserved) >= 2) =>
          rsaga'[s].released # rsaga[s].reserved]_vars

\* saga s takes this step
SagaMoves(s) == rsaga'[s] # rsaga[s]

\* C38: releasing a saga's reservations never deletes a lock that a different
\* saga currently holds, also when the releasing saga's own lock has expired
\* by TTL and the key has since been acquired by another saga.
C38_ReleaseSparesOtherSagas ==
    [][\A s \in ResSagas : SagaMoves(s) =>
          \A g \in ResGroups : LockOfOther(s, g) => grupo_lock'[g] = grupo_lock[g]]_vars

(***************************************************************************)
(*               CLAIMS ABOUT THE STATUS OF THE STEPS AT RETURN            *)
(***************************************************************************)

TransientStatuses == {"executing", "compensating"}

\* C39: when execute returns, no step is left in a transient status: every
\* step is pending, completed, compensated or failed, never executing or
\* compensating, also when a compensation raised an error.
C39_NoTransientStepAtReturn ==
    SagaReturned => \A i \in StepIdx : steps[i].status \notin TransientStatuses

\* C39 for the sagas none of whose compensations raised
C39_NoTransientStepUnlessCompensationRaised ==
    (SagaReturned /\ \A i \in StepIdx : ~CompRaised(i))
        => \A i \in StepIdx : steps[i].status \notin TransientStatuses

(***************************************************************************)
(*               CLAIMS ABOUT THE ROW LOCK OF THE COUNTER                  *)
(***************************************************************************)

\* client c of InscripcionService writes inscritos_actuales of group g in this step
SvcWrites(c, g) == svc[c].pc # "idle" /\ svc'[c].pc = "idle" /\ inscritos'[g] # inscritos[g]

\* client c commits detail rows of group g in this step (create, add group)
SvcEnrolls(c, g) ==
    /\ svc[c].pc \in {"create", "add"}
    /\ g \in Range(svc[c].grupos)
    /\ detalle' # detalle

\* C36: every read-modify-write of a group's inscritos_actuales in
\* InscripcionService (create, add group, remove group, delete) is done under
\* the group's row lock: the value written is computed from the value the row
\* has when it is written, so no increment or decrement is lost, and no two
\* transactions pass the capacity check for the last seat.
C36_CounterWrittenUnderRowLock ==
    /\ [][\A c \in Clients, g \in Groups :
             SvcWrites(c, g) => (rowlock[g] # NoTask /\ svc[c].leido[g] = inscritos[g])]_vars
    /\ [][\A c \in Clients, g \in Groups : SvcEnrolls(c, g) => inscritos[g] < cupo[g]]_vars

\* C36, lost updates alone: no counter is written from a value read before
\* another transaction changed it
C36_NoStaleWrite ==
    [][\A c \in Clients, g \in Groups : SvcWrites(c, g) => svc[c].leido[g] = inscritos[g]]_vars

\* C36, the last seat alone: the capacity check still holds when the rows are written
C36_CheckHoldsAtWrite ==
    [][\A c \in Clients, g \in Groups : SvcEnrolls(c, g) => inscritos[g] < cupo[g]]_vars

(***************************************************************************)
(*               CLAIMS ABOUT CONCURRENT CALLS THROUGH A BREAKER           *)
(***************************************************************************)

\* the failure count the breaker compares with failure_threshold
RecordedFailures == IF cbImpl = "core" THEN consecutive_failures ELSE failure_count

\* C37: when k calls through the same closed breaker fail concurrently with no
\* success in between, none of the k failure records is lost: the recorded
\* failure count is k, and the breaker is open whenever k >= failure_threshold.
C37_ConcurrentFailuresAllCounted ==
    /\ failRun >= 1 => RecordedFailures = failRun
    /\ failRun >= FailureThreshold => cbState # "closed"

\* C37 for the breaker of app/core/circuit_breaker.py
C37_CoreCountsEveryFailure ==
    cbImpl = "core" =>
        /\ RecordedFailures = failRun
        /\ failRun >= FailureThreshold => cbState # "closed"

\* C37, atomicity alone: each failure adds exactly one to the recorded count,
\* whatever other calls are in flight, and no record of the run is missing
C37_NoFailureRecordLost ==
    /\ [][FailureRecorded => RecordedFailures' = RecordedFailures + 1]_vars
    /\ [](RecordedFailures >= failRun)
    /\ [](failRun >= FailureThreshold => cbState # "closed")

\* two calls were in flight together and both failed, with no success in between
C37_TwoConcurrentFailures ==
    /\ failRun >= 2
    /\ ncalls = 2
    /\ \A c \in Callers : calls[c] = "idle"

(***************************************************************************)
(*               CLAIMS ABOUT WAITING FOR ROW LOCKS                        *)
(***************************************************************************)

\* task t is blocked in SELECT ... FOR UPDATE on a row that task u has locked
WaitsFor(t, u) ==
    /\ task[t].pc = "locking"
    /\ rowlock[task[t].nuevos[task[t].k]] = u

\* C40: concurrent multi-group enrollment transactions never deadlock on group
\* row locks: whatever the order of the groups in their lists, no state is
\* reached in which each of two transactions waits for a row lock the other holds.
C40_NoRowLockDeadlock ==
    \A t, u \in Tasks : t # u => ~(WaitsFor(t, u) /\ WaitsFor(u, t))

\* C40 for two transactions whose lists name their common groups in the same order
SameOrder(l1, l2) ==
    \A i, j \in 1..Len(l1) : \A p, q \in 1..Len(l2) :
        (i < j /\ l1[i] = l2[q] /\ l1[j] = l2[p] /\ l1[i] # l1[j]) => q < p

C40_NoDeadlockInSameOrder ==
    \A t, u \in Tasks :
        (t # u /\ SameOrder(task[t].grupos, task[u].grupos))
            => ~(WaitsFor(t, u) /\ WaitsFor(u, t))

============================================================================
